---- MODULE Spec2Model ----
(***************************************************************************)
(* oxmon: the Monitor (oxmon-core/src/monitor.rs) over the SQLite store    *)
(* (oxmon-db/src/lib.rs).  The store's four tables are sequences whose     *)
(* index is the AUTOINCREMENT id; one monitor process runs at a time and   *)
(* may be killed between any two store statements.                         *)
(***************************************************************************)
EXTENDS Integers, Sequences, FiniteSets, TLC

(* ---------------------------------------------------------------- bounds *)
MaxTime == 1          \* clock values 0..MaxTime
MaxRuns == 2          \* process starts, Spec
MaxTicks == 2         \* check_all_hosts calls, Spec
MaxRunsHosts == 2     \* process starts, SpecHosts
MaxTicksHosts == 1    \* check_all_hosts calls, SpecHosts
MaxTicksLong == 4     \* check_all_hosts calls, SpecTicks
MaxRunsFirst == 2     \* process starts, SpecFirst
MaxTicksFirst == 2    \* check_all_hosts calls, SpecFirst
TlMaxTime == 2        \* instants 0..TlMaxTime of the stores of SpecTimeline
TlMaxEvents == 2      \* rows of host_events, SpecTimeline
TlMaxBuckets == 2     \* num_buckets, SpecTimeline

MaxRunsThree == 3     \* process starts, SpecRuns
MaxTicksRuns == 1     \* check_all_hosts calls, SpecRuns

MaxTicksTwo == 2      \* check_all_hosts calls, SpecTwo
MaxTicksQuery == 1    \* check_all_hosts calls, SpecQuery
MaxBucketsQuery == 1  \* num_buckets, SpecQuery

ScMaxBefore == 2      \* events before the range, SpecScenario

(* ------------------------------------------------------------ data types *)
\* Option<T>: None is the empty tuple, Some(x) the one-element tuple.
None == <<>>
Some(x) == <<x>>
IsNone(o) == o = <<>>
IsSome(o) == o # <<>>
Unwrap(o) == o[1]

\* Timestamps are held in memory as DateTime<Utc> (an integer number of
\* clock units) and in the store as TEXT in one of two layouts.
SqliteNow(t) == <<"sqlite", t>>
to_rfc3339(t) == <<"rfc3339", t>>
parse_from_rfc3339(s) == s[2]

\* IpAddr and its Display form, the TEXT kept in hosts.ip_address.
IpToString(ip) == <<ip.family, ip.addr>>
IpParse(s) == [family |-> s[1], addr |-> s[2]]

HostA1 == [hostname |-> "a", ip_address |-> [family |-> "V4", addr |-> 1]]
HostA6 == [hostname |-> "a", ip_address |-> [family |-> "V6", addr |-> 1]]

\* The host lists a process may be started with (the hosts file, or none).
HostLists == { <<>>, <<HostA1>> }
HostListsMany == { <<>>, <<HostA1>>, <<HostA1, HostA6>>, <<HostA1, HostA1>> }
HostListsOne == { <<HostA1>> }

HostListsTwo == { <<HostA1, HostA6>> }

\* EventType <-> the TEXT kept in host_events.event_type.
EventStr(event_type) ==
    CASE event_type = "Online" -> "online"
      [] event_type = "Offline" -> "offline"
      [] event_type = "Unknown" -> "unknown"

StatusToEventType_swapped(status) ==
    CASE status = "Online" -> "Offline"
      [] status = "Offline" -> "Online"

StatusToEventType_unknown(status) ==
    CASE status = "Online" -> "Online"
      [] status = "Offline" -> "Unknown"

\* impl From<Status> for EventType
StatusToEventType(status) ==
    CASE status = "Online" -> "Online"
      [] status = "Offline" -> "Offline"

Latency == 7

VARIABLES
    now,              \* the wall clock (Utc::now() and SQLite 'now')
    hosts,            \* table hosts
    host_events,      \* table host_events
    ping_results,     \* table ping_results
    server_sessions,  \* table server_sessions
    pc,               \* position of the monitor process
    cfg,              \* Monitor::new argument hosts: Vec<HostConfig>
    idx,              \* Monitor::new loop position over the host list
    upserted,         \* Monitor::new local (id, is_new) of the current host
    host_ids,         \* Monitor.hosts: Vec<(i64, HostConfig)>
    session_id,       \* Monitor.session_id
    status_map,       \* Monitor.status_map
    tasks,            \* the per-host check_host tasks of the current tick
    in_tick,          \* a check_all_hosts call is in progress
    ticks,            \* check_all_hosts calls made so far, by all processes
    runs,             \* processes started so far
    boot,             \* the store as this process found it when it started
    probe_log,        \* what each check_host call of this process did
    query,            \* the arguments of the last get_host_timeline call
    timeline,         \* what that call returned, and the events it counted
                      \* as lying in each bucket
    api               \* the get_timelines and get_status calls in progress
                      \* and the tasks waiting for the lock of status_map

vars == << now, hosts, host_events, ping_results, server_sessions, pc, cfg,
           idx, upserted, host_ids, session_id, status_map, tasks, in_tick,
           ticks, runs, boot, probe_log, query, timeline, api >>

db == << hosts, host_events, ping_results, server_sessions >>
mem == << cfg, idx, upserted, host_ids, session_id, status_map, tasks,
          in_tick, boot, probe_log >>

tl == << query, timeline, api >>

EmptyMap == [k \in {} |-> k]
NoQuery == [host_id |-> 0, start_time |-> 0, end_time |-> 0, num_buckets |-> 0]
NoTimeline == [status |-> "none", buckets |-> <<>>, counted |-> <<>>]
\* No query is in progress and nobody waits for the lock.
NoApi == [tl_pc |-> "idle", tl_idx |-> 0,
          tl_args |-> [duration_hours |-> 0, num_buckets |-> 0, end_time |-> 0],
          st_pc |-> "idle", queue |-> <<>>]
NoUpsert == [id |-> 0, is_new |-> FALSE]
NoBoot == [hosts |-> 0, host_events |-> 0, ping_results |-> 0,
           server_sessions |-> <<>>]

(* ------------------------------------------------- the store's statements *)
SelectHost_by_name(hs, config) ==
    { i \in 1..Len(hs) : hs[i].hostname = config.hostname }

\* SELECT id FROM hosts WHERE hostname = ? AND ip_address = ?
SelectHost(hs, config) ==
    { i \in 1..Len(hs) : hs[i].hostname = config.hostname
                         /\ hs[i].ip_address = IpToString(config.ip_address) }

Min(S) == CHOOSE x \in S : \A y \in S : x <= y
Max(S) == CHOOSE x \in S : \A y \in S : x >= y

upsert_host(hs, config) ==
    LET existing == SelectHost(hs, config) IN
    IF existing # {}
    THEN [hosts |-> hs, id |-> Min(existing), is_new |-> FALSE]
    ELSE [hosts |-> Append(hs, [hostname |-> config.hostname,
                                ip_address |-> IpToString(config.ip_address),
                                created_at |-> SqliteNow(now),
                                first_inserted |-> None]),
          id |-> Len(hs) + 1, is_new |-> TRUE]

set_first_inserted_overwrite(hs, host_id, timestamp) ==
    [i \in 1..Len(hs) |->
        IF i = host_id
        THEN [hs[i] EXCEPT !.first_inserted = Some(to_rfc3339(timestamp))]
        ELSE hs[i]]

set_first_inserted(hs, host_id, timestamp) ==
    [i \in 1..Len(hs) |->
        IF i = host_id /\ IsNone(hs[i].first_inserted)
        THEN [hs[i] EXCEPT !.first_inserted = Some(to_rfc3339(timestamp))]
        ELSE hs[i]]

\* check_host calls Database::set_first_connected, which is not among the
\* sources; the store's write-once setter of the timestamp stands for it
\* ("if first_connected is not yet set, set it to the probe's timestamp").
set_first_connected(hs, host_id, timestamp) ==
    set_first_inserted(hs, host_id, timestamp)

record_event_in_place(evs, host_id, event_type) ==
    LET mine == { i \in 1..Len(evs) : evs[i].host_id = host_id } IN
    IF mine = {}
    THEN Append(evs, [host_id |-> host_id, event_type |-> EventStr(event_type),
                      timestamp |-> SqliteNow(now)])
    ELSE [evs EXCEPT ![Max(mine)] =
             [host_id |-> host_id, event_type |-> EventStr(event_type),
              timestamp |-> SqliteNow(now)]]

record_event(evs, host_id, event_type) ==
    Append(evs, [host_id |-> host_id, event_type |-> EventStr(event_type),
                 timestamp |-> SqliteNow(now)])

record_ping_result_on_change(prs, host_id, success_count, total_count, avg_latency_ms) ==
    LET mine == { i \in 1..Len(prs) : prs[i].host_id = host_id } IN
    IF mine # {} /\ prs[Max(mine)].success_count = success_count
    THEN prs
    ELSE Append(prs, [host_id |-> host_id, success_count |-> success_count,
                      total_count |-> total_count,
                      avg_latency_ms |-> avg_latency_ms,
                      timestamp |-> SqliteNow(now)])

record_ping_result(prs, host_id, success_count, total_count, avg_latency_ms) ==
    Append(prs, [host_id |-> host_id, success_count |-> success_count,
                 total_count |-> total_count,
                 avg_latency_ms |-> avg_latency_ms,
                 timestamp |-> SqliteNow(now)])

get_hosts(hs) ==
    [i \in 1..Len(hs) |->
        <<i, [hostname |-> hs[i].hostname,
              ip_address |-> IpParse(hs[i].ip_address)]>>]

create_session(ss) ==
    Append(ss, [started_at |-> SqliteNow(now), stopped_at |-> None,
                shutdown_type |-> None])

get_last_session_first(ss) ==
    IF Len(ss) = 0 THEN None
    ELSE Some([id |-> 1,
               started_at |-> parse_from_rfc3339(ss[1].started_at),
               stopped_at |->
                   IF IsNone(ss[1].stopped_at) THEN None
                   ELSE Some(parse_from_rfc3339(Unwrap(ss[1].stopped_at))),
               shutdown_type |-> ss[1].shutdown_type])

\* ORDER BY id DESC LIMIT 1, with the TEXT columns parsed
get_last_session(ss) ==
    IF Len(ss) = 0 THEN None
    ELSE Some([id |-> Len(ss),
               started_at |-> parse_from_rfc3339(ss[Len(ss)].started_at),
               stopped_at |->
                   IF IsNone(ss[Len(ss)].stopped_at) THEN None
                   ELSE Some(parse_from_rfc3339(Unwrap(ss[Len(ss)].stopped_at))),
               shutdown_type |-> ss[Len(ss)].shutdown_type])

close_session(ss, id, stopped_at, shutdown_type) ==
    [i \in 1..Len(ss) |->
        IF i = id
        THEN [ss[i] EXCEPT !.stopped_at = Some(to_rfc3339(stopped_at)),
                           !.shutdown_type = Some(shutdown_type)]
        ELSE ss[i]]

\* SELECT timestamp FROM ping_results ORDER BY timestamp DESC LIMIT 1;
\* every row's timestamp has the SQLite layout, so TEXT order is time order.
get_first_ping_timestamp(prs) ==
    IF Len(prs) = 0 THEN None
    ELSE Some(Min({ parse_from_rfc3339(prs[i].timestamp) : i \in 1..Len(prs) }))

get_last_ping_timestamp(prs) ==
    IF Len(prs) = 0 THEN None
    ELSE Some(Max({ parse_from_rfc3339(prs[i].timestamp) : i \in 1..Len(prs) }))

(* ------------------------------------------------------ the timeline query *)
\* TEXT comparison of a stored timestamp with a bound one.  The two layouts
\* agree up to the seconds; strftime('%Y-%m-%dT%H:%M:%fZ') goes on with
\* ".000Z" and to_rfc3339 with "+00:00", and '+' sorts before '.'.
TextLess(a, b) ==
    \/ a[2] < b[2]
    \/ a[2] = b[2] /\ a[1] = "rfc3339" /\ b[1] = "sqlite"

TextLeq(a, b) == a = b \/ TextLess(a, b)

\* ORDER BY <column> ASC over the rows S; rows of equal text keep the order
\* of their ids.
OrderBy(S, key(_)) ==
    LET before(i, j) == TextLess(key(i), key(j)) \/ (key(i) = key(j) /\ i < j)
        rank(i) == Cardinality({ j \in S : before(j, i) })
    IN [k \in 1..Cardinality(S) |-> CHOOSE i \in S : rank(i) = k - 1]

ParseEventType(event_type_str) ==
    CASE event_type_str = "online" -> "Online"
      [] event_type_str = "offline" -> "Offline"
      [] event_type_str = "unknown" -> "Unknown"

\* WHERE host_id = ? ORDER BY timestamp DESC; a row of another event_type
\* is skipped. Rows of equal text keep the order of their ids.
get_host_events(evs, host_id) ==
    LET S == { i \in 1..Len(evs) :
                 /\ evs[i].host_id = host_id
                 /\ evs[i].event_type \in {"online", "offline", "unknown"} }
        after(i, j) == \/ TextLess(evs[j].timestamp, evs[i].timestamp)
                       \/ (evs[i].timestamp = evs[j].timestamp /\ i < j)
        rank(i) == Cardinality({ j \in S : after(j, i) })
        rows == [k \in 1..Cardinality(S) |-> CHOOSE i \in S : rank(i) = k - 1]
    IN [k \in 1..Len(rows) |->
           [id |-> rows[k], host_id |-> host_id,
            event_type |-> ParseEventType(evs[rows[k]].event_type),
            timestamp |-> parse_from_rfc3339(evs[rows[k]].timestamp)]]

\* WHERE host_id = ? AND timestamp >= ? AND timestamp <= ? ORDER BY timestamp
get_host_events_in_range(evs, host_id, start_time, end_time) ==
    LET S == { i \in 1..Len(evs) :
                 /\ evs[i].host_id = host_id
                 /\ TextLeq(to_rfc3339(start_time), evs[i].timestamp)
                 /\ TextLeq(evs[i].timestamp, to_rfc3339(end_time))
                 /\ evs[i].event_type \in {"online", "offline", "unknown"} }
        key(i) == evs[i].timestamp
        rows == OrderBy(S, key)
    IN [k \in 1..Len(rows) |->
           [id |-> rows[k], host_id |-> host_id,
            event_type |-> ParseEventType(evs[rows[k]].event_type),
            timestamp |-> parse_from_rfc3339(evs[rows[k]].timestamp)]]

\* WHERE started_at <= ? AND (stopped_at IS NULL OR stopped_at >= ?)
\* ORDER BY started_at, bound to end_time and start_time
get_sessions_in_range(ss, start_time, end_time) ==
    LET S == { i \in 1..Len(ss) :
                 /\ TextLeq(ss[i].started_at, to_rfc3339(end_time))
                 /\ \/ IsNone(ss[i].stopped_at)
                    \/ TextLeq(to_rfc3339(start_time), Unwrap(ss[i].stopped_at)) }
        key(i) == ss[i].started_at
        rows == OrderBy(S, key)
    IN [k \in 1..Len(rows) |->
           [id |-> rows[k],
            started_at |-> parse_from_rfc3339(ss[rows[k]].started_at),
            stopped_at |->
                IF IsNone(ss[rows[k]].stopped_at) THEN None
                ELSE Some(parse_from_rfc3339(Unwrap(ss[rows[k]].stopped_at))),
            shutdown_type |-> ss[rows[k]].shutdown_type]]

events_in_bucket_open(events, bucket_start, bucket_end) ==
    { k \in 1..Len(events) : /\ events[k].timestamp > bucket_start
                             /\ events[k].timestamp < bucket_end }

events_in_bucket_closed(events, bucket_start, bucket_end) ==
    { k \in 1..Len(events) : /\ events[k].timestamp >= bucket_start
                             /\ events[k].timestamp <= bucket_end }

\* "Find events in this bucket"
events_in_bucket(events, bucket_start, bucket_end) ==
    { k \in 1..Len(events) : /\ events[k].timestamp >= bucket_start
                             /\ events[k].timestamp < bucket_end }

determine_bucket_state_events_first(events, sessions, bucket_start, bucket_end) ==
    LET server_running ==
            \E k \in 1..Len(sessions) :
                LET session_start == sessions[k].started_at
                    session_end == IF IsNone(sessions[k].stopped_at) THEN now
                                   ELSE Unwrap(sessions[k].stopped_at)
                IN session_start < bucket_end /\ session_end > bucket_start
        before == { k \in 1..Len(events) : events[k].timestamp < bucket_start }
        any(event_type) ==
            \E k \in events_in_bucket(events, bucket_start, bucket_end) :
                events[k].event_type = event_type
    IN IF any("Offline") THEN "Offline"
       ELSE IF ~server_running THEN "NoData"
       ELSE IF any("Unknown") THEN "NoData"
       ELSE IF any("Online") THEN "Online"
       ELSE IF before = {} THEN "NoData"
       ELSE CASE events[Max(before)].event_type = "Online" -> "Online"
              [] events[Max(before)].event_type = "Offline" -> "Offline"
              [] events[Max(before)].event_type = "Unknown" -> "NoData"

determine_bucket_state_last_event(events, sessions, bucket_start, bucket_end) ==
    LET server_running ==
            \E k \in 1..Len(sessions) :
                LET session_start == sessions[k].started_at
                    session_end == IF IsNone(sessions[k].stopped_at) THEN now
                                   ELSE Unwrap(sessions[k].stopped_at)
                IN session_start < bucket_end /\ session_end > bucket_start
        upto == { k \in 1..Len(events) : events[k].timestamp < bucket_end }
    IN IF ~server_running \/ upto = {} THEN "NoData"
       ELSE CASE events[Max(upto)].event_type = "Online" -> "Online"
              [] events[Max(upto)].event_type = "Offline" -> "Offline"
              [] events[Max(upto)].event_type = "Unknown" -> "NoData"

determine_bucket_state_online_first(events, sessions, bucket_start, bucket_end) ==
    LET server_running ==
            \E k \in 1..Len(sessions) :
                LET session_start == sessions[k].started_at
                    session_end == IF IsNone(sessions[k].stopped_at) THEN now
                                   ELSE Unwrap(sessions[k].stopped_at)
                IN session_start < bucket_end /\ session_end > bucket_start
        before == { k \in 1..Len(events) : events[k].timestamp < bucket_start }
        any(event_type) ==
            \E k \in events_in_bucket(events, bucket_start, bucket_end) :
                events[k].event_type = event_type
    IN IF ~server_running THEN "NoData"
       ELSE IF any("Offline") THEN "Offline"
       ELSE IF any("Online") THEN "Online"
       ELSE IF any("Unknown") THEN "NoData"
       ELSE IF before = {} THEN "NoData"
       ELSE CASE events[Max(before)].event_type = "Online" -> "Online"
              [] events[Max(before)].event_type = "Offline" -> "Offline"
              [] events[Max(before)].event_type = "Unknown" -> "NoData"

determine_bucket_state_inherit_first(events, sessions, bucket_start, bucket_end) ==
    LET server_running ==
            \E k \in 1..Len(sessions) :
                LET session_start == sessions[k].started_at
                    session_end == IF IsNone(sessions[k].stopped_at) THEN now
                                   ELSE Unwrap(sessions[k].stopped_at)
                IN session_start < bucket_end /\ session_end > bucket_start
        before == { k \in 1..Len(events) : events[k].timestamp < bucket_start }
        any(event_type) ==
            \E k \in events_in_bucket(events, bucket_start, bucket_end) :
                events[k].event_type = event_type
    IN IF ~server_running THEN "NoData"
       ELSE IF any("Offline") THEN "Offline"
       ELSE IF any("Unknown") THEN "NoData"
       ELSE IF before # {}
       THEN CASE events[Max(before)].event_type = "Online" -> "Online"
              [] events[Max(before)].event_type = "Offline" -> "Offline"
              [] events[Max(before)].event_type = "Unknown" -> "NoData"
       ELSE IF any("Online") THEN "Online"
       ELSE "NoData"

determine_bucket_state(events, sessions, bucket_start, bucket_end) ==
    LET server_running ==
            \E k \in 1..Len(sessions) :
                LET session_start == sessions[k].started_at
                    session_end == IF IsNone(sessions[k].stopped_at) THEN now
                                   ELSE Unwrap(sessions[k].stopped_at)
                IN session_start < bucket_end /\ session_end > bucket_start
        before == { k \in 1..Len(events) : events[k].timestamp < bucket_start }
        any(event_type) ==
            \E k \in events_in_bucket(events, bucket_start, bucket_end) :
                events[k].event_type = event_type
    IN IF ~server_running THEN "NoData"
       ELSE IF any("Offline") THEN "Offline"
       ELSE IF any("Unknown") THEN "NoData"
       ELSE IF any("Online") THEN "Online"
       ELSE IF before = {} THEN "NoData"
       ELSE CASE events[Max(before)].event_type = "Online" -> "Online"
              [] events[Max(before)].event_type = "Offline" -> "Offline"
              [] events[Max(before)].event_type = "Unknown" -> "NoData"

\* i64 division truncates toward zero
TruncDiv(a, b) == IF a >= 0 THEN a \div b ELSE -((-a) \div b)

get_host_timeline_shifted(evs, ss, host_id, start_time, end_time, num_buckets) ==
    IF num_buckets = 0
    THEN [status |-> "panicked", buckets |-> <<>>, counted |-> <<>>]
    ELSE LET bucket_duration == TruncDiv(end_time - start_time, num_buckets)
             events == get_host_events_in_range(evs, host_id, start_time, end_time)
             sessions == get_sessions_in_range(ss, start_time, end_time)
         IN [status |-> "ok",
             buckets |-> [i \in 1..num_buckets |->
                 LET bucket_start == start_time + bucket_duration * i
                     bucket_end == bucket_start + bucket_duration
                 IN determine_bucket_state(events, sessions,
                                           bucket_start, bucket_end)],
             counted |-> [i \in 1..num_buckets |->
                 LET bucket_start == start_time + bucket_duration * i
                     bucket_end == bucket_start + bucket_duration
                 IN { events[k].id :
                        k \in events_in_bucket(events, bucket_start, bucket_end) }]]

\* The division by num_buckets = 0 panics; otherwise one state per bucket.
get_host_timeline(evs, ss, host_id, start_time, end_time, num_buckets) ==
    IF num_buckets = 0
    THEN [status |-> "panicked", buckets |-> <<>>, counted |-> <<>>]
    ELSE LET bucket_duration == TruncDiv(end_time - start_time, num_buckets)
             events == get_host_events_in_range(evs, host_id, start_time, end_time)
             sessions == get_sessions_in_range(ss, start_time, end_time)
         IN [status |-> "ok",
             buckets |-> [i \in 1..num_buckets |->
                 LET bucket_start == start_time + bucket_duration * (i - 1)
                     bucket_end == bucket_start + bucket_duration
                 IN determine_bucket_state(events, sessions,
                                           bucket_start, bucket_end)],
             counted |-> [i \in 1..num_buckets |->
                 LET bucket_start == start_time + bucket_duration * (i - 1)
                     bucket_end == bucket_start + bucket_duration
                 IN { events[k].id :
                        k \in events_in_bucket(events, bucket_start, bucket_end) }]]

(* ----------------------------------------------------------------- Init *)
Init ==
    /\ now = 0
    /\ hosts = <<>>
    /\ host_events = <<>>
    /\ ping_results = <<>>
    /\ server_sessions = <<>>
    /\ pc = "dead"
    /\ cfg = <<>>
    /\ idx = 0
    /\ upserted = NoUpsert
    /\ host_ids = <<>>
    /\ session_id = 0
    /\ status_map = EmptyMap
    /\ tasks = <<>>
    /\ in_tick = FALSE
    /\ ticks = 0
    /\ runs = 0
    /\ boot = NoBoot
    /\ probe_log = <<>>
    /\ query = NoQuery
    /\ timeline = NoTimeline
    /\ api = NoApi

(* ------------------------------------------------------- the environment *)
\* Time passes. The clock is coarse: it moves while no process runs and
\* between the operations of a running monitor, so the steps of one startup,
\* and of one tick, read the same clock value.
Advance ==
    /\ now < MaxTime
    /\ pc = "dead" \/ (pc = "running" /\ ~in_tick)
    /\ now' = now + 1
    /\ UNCHANGED << db, pc, mem, ticks, runs >>
    /\ UNCHANGED tl

\* main(): the process starts and calls Monitor::new(db, hosts).
Start(lists, maxRuns) ==
    /\ pc = "dead"
    /\ runs < maxRuns
    /\ \E l \in lists : cfg' = l
    /\ pc' = "reconcile"
    /\ runs' = runs + 1
    /\ boot' = [hosts |-> Len(hosts), host_events |-> Len(host_events),
                ping_results |-> Len(ping_results),
                server_sessions |-> server_sessions]
    /\ UNCHANGED << now, db, idx, upserted, host_ids, session_id, status_map,
                    tasks, in_tick, ticks, probe_log >>
    /\ UNCHANGED tl

\* The process dies (killed, or Monitor::new returned Err and main exited):
\* everything in memory is lost, the store stays.
Crash ==
    /\ pc # "dead"
    /\ pc' = "dead"
    /\ cfg' = <<>>
    /\ idx' = 0
    /\ upserted' = NoUpsert
    /\ host_ids' = <<>>
    /\ session_id' = 0
    /\ status_map' = EmptyMap
    /\ tasks' = <<>>
    /\ in_tick' = FALSE
    /\ boot' = NoBoot
    /\ probe_log' = <<>>
    /\ api' = NoApi
    /\ UNCHANGED << now, db, ticks, runs, query, timeline >>

(* ---------------------------------------------------------- Monitor::new *)
\* "If last session has no stopped_at, server crashed"
NeedsReconcile_never(last_session) == FALSE

NeedsReconcile(last_session) == IsNone(last_session.stopped_at)

ReconcileClose_at_now(ss, prs, last_session) ==
    LET last_ping == get_last_ping_timestamp(prs) IN
    IF IsSome(last_ping)
    THEN close_session(ss, last_session.id, Unwrap(last_ping), "crashed")
    ELSE close_session(ss, last_session.id, now, "unknown")

\* The close_session call Monitor::new makes for an unclosed last session.
ReconcileClose(ss, prs, last_session) ==
    LET last_ping == get_last_ping_timestamp(prs) IN
    IF IsSome(last_ping)
    THEN close_session(ss, last_session.id, Unwrap(last_ping), "crashed")
    ELSE close_session(ss, last_session.id, last_session.started_at, "unknown")

NewReconcile ==
    /\ pc = "reconcile"
    /\ LET last == get_last_session(server_sessions) IN
       server_sessions' =
           IF IsSome(last) /\ NeedsReconcile(Unwrap(last))
           THEN ReconcileClose(server_sessions, ping_results, Unwrap(last))
           ELSE server_sessions
    /\ pc' = "create"
    /\ UNCHANGED << now, hosts, host_events, ping_results, mem, ticks, runs >>
    /\ UNCHANGED tl

NewCreateSession ==
    /\ pc = "create"
    /\ server_sessions' = create_session(server_sessions)
    /\ session_id' = Len(server_sessions')
    /\ pc' = "resolve"
    /\ UNCHANGED << now, hosts, host_events, ping_results, cfg, idx, upserted,
                    host_ids, status_map, tasks, in_tick, ticks, runs, boot, probe_log >>
    /\ UNCHANGED tl


\* Step 4 of Monitor::new: the explicit list is upserted host by host; an
\* empty list loads every host of the store.
NewResolve ==
    /\ pc = "resolve"
    /\ IF cfg = <<>>
       THEN /\ host_ids' = get_hosts(hosts)
            /\ pc' = IF Len(hosts) = 0 THEN "finish" ELSE "load"
       ELSE /\ host_ids' = <<>>
            /\ pc' = "upsert"
    /\ idx' = 1
    /\ UNCHANGED << now, db, cfg, upserted, session_id, status_map, tasks,
                    in_tick, ticks, runs, boot, probe_log >>
    /\ UNCHANGED tl

\* "Record unknown event for existing hosts (server was down)"
NewRecordUnknown ==
    /\ pc = "load"
    /\ idx <= Len(host_ids)
    /\ host_events' = record_event(host_events, host_ids[idx][1], "Unknown")
    /\ idx' = idx + 1
    /\ pc' = IF idx + 1 > Len(host_ids) THEN "finish" ELSE "load"
    /\ UNCHANGED << now, hosts, ping_results, server_sessions, cfg, upserted,
                    host_ids, session_id, status_map, tasks, in_tick, ticks, runs,
                    boot, probe_log >>
    /\ UNCHANGED tl

NewUpsert ==
    /\ pc = "upsert"
    /\ idx <= Len(cfg)
    /\ LET r == upsert_host(hosts, cfg[idx]) IN
        /\ hosts' = r.hosts
        /\ upserted' = [id |-> r.id, is_new |-> r.is_new]
    /\ pc' = "event"
    /\ UNCHANGED << now, host_events, ping_results, server_sessions, cfg, idx,
                    host_ids, session_id, status_map, tasks, in_tick, ticks, runs,
                    boot, probe_log >>
    /\ UNCHANGED tl

BootstrapEventType_offline(is_new) == "Offline"

\* "New hosts: offline (starting to monitor); existing hosts: unknown"
BootstrapEventType(is_new) == IF is_new THEN "Offline" ELSE "Unknown"

NewBootstrapEvent ==
    /\ pc = "event"
    /\ host_events' = record_event(host_events, upserted.id,
                                   BootstrapEventType(upserted.is_new))
    /\ host_ids' = Append(host_ids, <<upserted.id, cfg[idx]>>)
    /\ upserted' = NoUpsert
    /\ idx' = idx + 1
    /\ pc' = IF idx + 1 > Len(cfg) THEN "finish" ELSE "upsert"
    /\ UNCHANGED << now, hosts, ping_results, server_sessions, cfg,
                    session_id, status_map, tasks, in_tick, ticks, runs, boot,
                    probe_log >>
    /\ UNCHANGED tl

IdleTask == [pc |-> "idle", result |-> None, prev_status |-> None,
             emitted |-> FALSE]

InitialStatus_online(host_id, host_config) ==
    [id |-> host_id, hostname |-> host_config.hostname,
     ip_address |-> host_config.ip_address, status |-> "Online",
     last_check |-> now, success_count |-> 0, total_count |-> 0,
     avg_latency_ms |-> None]

\* "Initialize status_map with all hosts"
InitialStatus(host_id, host_config) ==
    [id |-> host_id, hostname |-> host_config.hostname,
     ip_address |-> host_config.ip_address, status |-> "Offline",
     last_check |-> now, success_count |-> 0, total_count |-> 0,
     avg_latency_ms |-> None]

HostIdSet(hl) == { hl[i][1] : i \in 1..Len(hl) }
ConfigOf(hl, host_id) ==
    hl[Max({ i \in 1..Len(hl) : hl[i][1] = host_id })][2]

NewFinish ==
    /\ pc = "finish"
    /\ status_map' = [h \in HostIdSet(host_ids) |->
                         InitialStatus(h, ConfigOf(host_ids, h))]
    /\ tasks' = [i \in 1..Len(host_ids) |-> IdleTask]
    /\ probe_log' = [i \in 1..Len(host_ids) |-> <<>>]
    /\ pc' = "running"
    /\ UNCHANGED << now, db, cfg, idx, upserted, host_ids, session_id, in_tick, ticks,
                    runs, boot >>
    /\ UNCHANGED tl

(* ---------------------------------------------------- Monitor::get_status *)
\* The values of the status map; a HashMap has no order, so the Vec is taken
\* as the set of its entries (they differ in their id).
get_status == { status_map[k] : k \in DOMAIN status_map }

(* ------------------------------------------------------ Monitor::shutdown *)
ShutdownType == "graceful"

Shutdown ==
    /\ pc = "running"
    /\ server_sessions' =
           close_session(server_sessions, session_id, now, ShutdownType)
    /\ UNCHANGED << now, hosts, host_events, ping_results, pc, mem, ticks, runs >>
    /\ UNCHANGED tl


(* ------------------------------------------------------------- the ticks *)
\* PingResult::avg_latency_ms and PingResult::is_online
avg_latency_ms(result) ==
    IF Len(result.latencies_ms) = 0 THEN None
    ELSE Some(result.latencies_ms[1])
is_online(result) == result.success_count > 0

Classify(result) == IF is_online(result) THEN "Online" ELSE "Offline"

ShouldRecordEvent_always(prev_status, new_status) == TRUE
ShouldRecordEvent_going_offline(prev_status, new_status) ==
    new_status = "Offline" /\ prev_status # Some(new_status)

\* "Record event if status changed"
ShouldRecordEvent(prev_status, new_status) ==
    IsNone(prev_status) \/ prev_status # Some(new_status)

(* ----------------------------------------------- the lock of status_map *)
\* tokio::sync::RwLock is fair: read guards are shared, a write waits for
\* every guard to be dropped, and whoever arrives while somebody waits joins
\* the queue behind them.  Only get_timelines keeps a guard across an await;
\* every other guard is taken and dropped within one step.
Writer(i) == [kind |-> "write", who |-> i]
Reader == [kind |-> "read", who |-> 0]
Queued(w) == \E k \in 1..Len(api.queue) : api.queue[k] = w
ReadHeld == api.tl_pc = "reading"
CanRead == api.queue = <<>>
CanWrite == api.queue = <<>> /\ ~ReadHeld

AllTasks_some(p) == \E i \in 1..Len(tasks) : tasks[i].pc = p

AllTasks(p) == \A i \in 1..Len(tasks) : tasks[i].pc = p

TickStart_unless_failed(maxTicks) ==
    /\ pc = "running"
    /\ ticks < maxTicks
    /\ ~in_tick
    /\ \A i \in 1..Len(probe_log) :
        IF probe_log[i] = <<>> THEN TRUE ELSE probe_log[i][Len(probe_log[i])].ok
    /\ in_tick' = TRUE
    /\ ticks' = ticks + 1
    /\ tasks' = [i \in 1..Len(tasks) |-> [IdleTask EXCEPT !.pc = "ping"]]
    /\ UNCHANGED << now, db, pc, cfg, idx, upserted, host_ids, session_id,
                    status_map, runs, boot, probe_log >>
    /\ UNCHANGED tl

\* check_all_hosts spawns one check_host task per entry of Monitor.hosts.
TickStart(maxTicks) ==
    /\ pc = "running"
    /\ ticks < maxTicks
    /\ ~in_tick
    /\ in_tick' = TRUE
    /\ ticks' = ticks + 1
    /\ tasks' = [i \in 1..Len(tasks) |-> [IdleTask EXCEPT !.pc = "ping"]]
    /\ UNCHANGED << now, db, pc, cfg, idx, upserted, host_ids, session_id,
                    status_map, runs, boot, probe_log >>
    /\ UNCHANGED tl

Finished_abort(i, ok) ==
    /\ tasks' = [j \in 1..Len(tasks) |->
                    IF j = i \/ ~ok THEN [tasks[j] EXCEPT !.pc = "done"]
                    ELSE tasks[j]]
    /\ probe_log' = [probe_log EXCEPT ![i] = Append(@,
           [status |-> Classify(Unwrap(tasks[i].result)),
            prev_status |-> tasks[i].prev_status,
            emitted |-> tasks[i].emitted, ok |-> ok])]

\* A check_host call is over, with Ok(()) or with Err.
Finished(i, ok) ==
    /\ tasks' = [tasks EXCEPT ![i].pc = "done"]
    /\ probe_log' = [probe_log EXCEPT ![i] = Append(@,
           [status |-> Classify(Unwrap(tasks[i].result)),
            prev_status |-> tasks[i].prev_status,
            emitted |-> tasks[i].emitted, ok |-> ok])]

\* ping_host: Err when the ICMP client cannot be made; otherwise one echo
\* request that is answered within the timeout or not.
TaskPing(i) ==
    /\ pc = "running"
    /\ tasks[i].pc = "ping"
    /\ \E outcome \in {"reply", "silent", "error"} :
        IF outcome = "error"
        THEN /\ tasks' = [tasks EXCEPT ![i].pc = "done"]
             /\ probe_log' = [probe_log EXCEPT ![i] = Append(@,
                    [status |-> "Error", prev_status |-> None,
                     emitted |-> FALSE, ok |-> FALSE])]
        ELSE LET latencies == IF outcome = "reply" THEN <<Latency>> ELSE <<>>
                 result == [hostname |-> host_ids[i][2].hostname,
                            ip_address |-> host_ids[i][2].ip_address,
                            success_count |-> Len(latencies),
                            total_count |-> 1,
                            latencies_ms |-> latencies,
                            timestamp |-> now]
             IN /\ tasks' = [tasks EXCEPT
                       ![i].result = Some(result),
                       ![i].pc = IF Classify(result) = "Online"
                                 THEN "first" ELSE "event"]
                /\ UNCHANGED probe_log
    /\ UNCHANGED << now, db, pc, cfg, idx, upserted, host_ids, session_id,
                    status_map, in_tick, ticks, runs, boot >>
    /\ UNCHANGED tl

\* "Set first_connected timestamp if host came online"
TaskFirstConnected(i) ==
    /\ pc = "running"
    /\ tasks[i].pc = "first"
    /\ \E written \in BOOLEAN :
        IF written
        THEN /\ hosts' = set_first_connected(hosts, host_ids[i][1],
                             Unwrap(tasks[i].result).timestamp)
             /\ tasks' = [tasks EXCEPT ![i].pc = "event"]
             /\ UNCHANGED probe_log
        ELSE /\ Finished(i, FALSE)
             /\ UNCHANGED hosts
    /\ UNCHANGED << now, host_events, ping_results, server_sessions, pc, cfg,
                    idx, upserted, host_ids, session_id, status_map, in_tick, ticks,
                    runs, boot >>
    /\ UNCHANGED tl

\* "Get previous status" and "Record event if status changed"
TaskEvent(i) ==
    /\ pc = "running"
    /\ tasks[i].pc = "event"
    /\ CanRead
    /\ LET host_id == host_ids[i][1]
           new_status == Classify(Unwrap(tasks[i].result))
           prev_status == IF host_id \in DOMAIN status_map
                          THEN Some(status_map[host_id].status) ELSE None
       IN IF ShouldRecordEvent(prev_status, new_status)
          THEN \E written \in BOOLEAN :
               IF written
               THEN /\ host_events' = record_event(host_events, host_id,
                                          StatusToEventType(new_status))
                    /\ tasks' = [tasks EXCEPT ![i].pc = "record",
                                              ![i].prev_status = prev_status,
                                              ![i].emitted = TRUE]
                    /\ UNCHANGED probe_log
               ELSE /\ tasks' = [tasks EXCEPT ![i].pc = "done",
                                              ![i].prev_status = prev_status]
                    /\ probe_log' = [probe_log EXCEPT ![i] = Append(@,
                           [status |-> new_status, prev_status |-> prev_status,
                            emitted |-> FALSE, ok |-> FALSE])]
                    /\ UNCHANGED host_events
          ELSE /\ tasks' = [tasks EXCEPT ![i].pc = "record",
                                         ![i].prev_status = prev_status]
               /\ UNCHANGED << host_events, probe_log >>
    /\ UNCHANGED << now, hosts, ping_results, server_sessions, pc, cfg, idx,
                    upserted, host_ids, session_id, status_map, in_tick, ticks, runs,
                    boot >>
    /\ UNCHANGED tl

\* "Record ping result"
TaskRecord(i) ==
    /\ pc = "running"
    /\ tasks[i].pc = "record"
    /\ \E written \in BOOLEAN :
        IF written
        THEN /\ LET result == Unwrap(tasks[i].result) IN
                ping_results' = record_ping_result(ping_results,
                    host_ids[i][1], result.success_count, result.total_count,
                    avg_latency_ms(result))
             /\ tasks' = [tasks EXCEPT ![i].pc = "cache"]
             /\ UNCHANGED probe_log
        ELSE /\ Finished(i, FALSE)
             /\ UNCHANGED ping_results
    /\ UNCHANGED << now, hosts, host_events, server_sessions, pc, cfg, idx,
                    upserted, host_ids, session_id, status_map, in_tick, ticks, runs,
                    boot >>
    /\ UNCHANGED tl

MapInsert_alone(m, k, v) == [x \in {k} |-> v]

MapInsert(m, k, v) ==
    [x \in DOMAIN m \cup {k} |-> IF x = k THEN v ELSE m[x]]

\* "Update status map": the insert made under the write lock.
CacheUpdate(i) ==
    /\ LET result == Unwrap(tasks[i].result) IN
       status_map' = MapInsert(status_map, host_ids[i][1],
           [id |-> host_ids[i][1], hostname |-> host_ids[i][2].hostname,
            ip_address |-> host_ids[i][2].ip_address,
            status |-> Classify(result), last_check |-> result.timestamp,
            success_count |-> result.success_count,
            total_count |-> result.total_count,
            avg_latency_ms |-> avg_latency_ms(result)])
    /\ Finished(i, TRUE)
    /\ UNCHANGED << now, db, pc, cfg, idx, upserted, host_ids, session_id,
                    in_tick, ticks, runs, boot >>

TaskCache_skip(i) ==
    /\ pc = "running"
    /\ tasks[i].pc = "cache"
    /\ Finished(i, TRUE)
    /\ UNCHANGED << now, db, pc, cfg, idx, upserted, host_ids, session_id,
                    status_map, in_tick, ticks, runs, boot >>
    /\ UNCHANGED tl

\* status_map.write() is granted at once.
TaskCache(i) ==
    /\ pc = "running"
    /\ tasks[i].pc = "cache"
    /\ CanWrite
    /\ CacheUpdate(i)
    /\ UNCHANGED tl

\* status_map.write() has to wait: the task joins the queue of the lock.
TaskCacheWait(i) ==
    /\ pc = "running"
    /\ tasks[i].pc = "cache"
    /\ ~CanWrite
    /\ ~Queued(Writer(i))
    /\ api' = [api EXCEPT !.queue = Append(@, Writer(i))]
    /\ UNCHANGED << now, db, pc, mem, ticks, runs, query, timeline >>

\* The waiting task is first in the queue and the read guards are dropped.
TaskCacheGranted(i) ==
    /\ pc = "running"
    /\ tasks[i].pc = "cache"
    /\ api.queue # <<>>
    /\ Head(api.queue) = Writer(i)
    /\ ~ReadHeld
    /\ CacheUpdate(i)
    /\ api' = [api EXCEPT !.queue = Tail(@)]
    /\ UNCHANGED << query, timeline >>

\* "Wait for all tasks to complete"
TickEnd ==
    /\ pc = "running"
    /\ in_tick
    /\ AllTasks("done")
    /\ tasks' = [i \in 1..Len(tasks) |-> IdleTask]
    /\ in_tick' = FALSE
    /\ UNCHANGED << now, db, pc, cfg, idx, upserted, host_ids, session_id,
                    status_map, ticks, runs, boot, probe_log >>
    /\ UNCHANGED tl

(* ------------------------------------------------ the queries of the API *)
\* Monitor::get_status: a read guard, taken and dropped at once when nobody
\* waits for the lock; otherwise the call joins the queue.
GetStatus ==
    /\ pc = "running"
    /\ api.st_pc = "idle"
    /\ IF CanRead
       THEN api' = [api EXCEPT !.st_pc = "done"]
       ELSE api' = [api EXCEPT !.st_pc = "waiting", !.queue = Append(@, Reader)]
    /\ UNCHANGED << now, db, pc, mem, ticks, runs, query, timeline >>

GetStatusGranted ==
    /\ pc = "running"
    /\ api.st_pc = "waiting"
    /\ api.queue # <<>>
    /\ Head(api.queue) = Reader
    /\ api' = [api EXCEPT !.st_pc = "done", !.queue = Tail(@)]
    /\ UNCHANGED << now, db, pc, mem, ticks, runs, query, timeline >>

\* Monitor::get_timelines up to status_map.read(): bucket_duration_secs is a
\* u32 division, which panics for num_buckets = 0.
GetTimelinesBegin(durations, counts) ==
    /\ pc = "running"
    /\ api.tl_pc = "idle"
    /\ CanRead
    /\ \E duration_hours \in durations, num_buckets \in counts :
        api' = [api EXCEPT
                  !.tl_pc = IF num_buckets = 0 THEN "panicked" ELSE "reading",
                  !.tl_idx = 1,
                  !.tl_args = [duration_hours |-> duration_hours,
                               num_buckets |-> num_buckets, end_time |-> now]]
    /\ UNCHANGED << now, db, pc, mem, ticks, runs, query, timeline >>

GetTimelinesHost_logging ==
    /\ pc = "running"
    /\ api.tl_pc = "reading"
    /\ api.tl_idx <= Len(host_ids)
    /\ LET host_id == host_ids[api.tl_idx][1]
           end_time == api.tl_args.end_time
           start_time == end_time - api.tl_args.duration_hours
       IN /\ query' = [host_id |-> host_id, start_time |-> start_time,
                       end_time |-> end_time,
                       num_buckets |-> api.tl_args.num_buckets]
          /\ timeline' = get_host_timeline(host_events, server_sessions, host_id,
                              start_time, end_time, api.tl_args.num_buckets)
          /\ host_events' = record_event(host_events, host_id, "Unknown")
    /\ api' = [api EXCEPT !.tl_idx = @ + 1]
    /\ UNCHANGED << now, hosts, ping_results, server_sessions, pc, mem, ticks, runs >>

\* One turn of the loop over Monitor.hosts, the read guard being held.
GetTimelinesHost ==
    /\ pc = "running"
    /\ api.tl_pc = "reading"
    /\ api.tl_idx <= Len(host_ids)
    /\ LET host_id == host_ids[api.tl_idx][1]
           end_time == api.tl_args.end_time
           start_time == end_time - api.tl_args.duration_hours
       IN /\ query' = [host_id |-> host_id, start_time |-> start_time,
                       end_time |-> end_time,
                       num_buckets |-> api.tl_args.num_buckets]
          /\ timeline' = get_host_timeline(host_events, server_sessions, host_id,
                              start_time, end_time, api.tl_args.num_buckets)
    /\ api' = [api EXCEPT !.tl_idx = @ + 1]
    /\ UNCHANGED << now, db, pc, mem, ticks, runs >>

\* The loop is over: Ok(timelines), and the read guard is dropped.
GetTimelinesEnd ==
    /\ pc = "running"
    /\ api.tl_pc = "reading"
    /\ api.tl_idx > Len(host_ids)
    /\ api' = [api EXCEPT !.tl_pc = "done"]
    /\ UNCHANGED << now, db, pc, mem, ticks, runs, query, timeline >>

(* -------------------------------------------------------- specifications *)
Next ==
    \/ Advance
    \/ Start(HostLists, MaxRuns)
    \/ Crash
    \/ NewReconcile
    \/ NewCreateSession
    \/ NewResolve
    \/ NewRecordUnknown
    \/ NewUpsert
    \/ NewBootstrapEvent
    \/ NewFinish
    \/ Shutdown
    \/ TickStart(MaxTicks)
    \/ \E i \in 1..Len(tasks) : TaskPing(i)
    \/ \E i \in 1..Len(tasks) : TaskFirstConnected(i)
    \/ \E i \in 1..Len(tasks) : TaskEvent(i)
    \/ \E i \in 1..Len(tasks) : TaskRecord(i)
    \/ \E i \in 1..Len(tasks) : TaskCache(i)
    \/ TickEnd

Spec == Init /\ [][Next]_vars

\* Several hosts per list; the clock stands still and nobody calls shutdown.
NextHosts ==
    \/ Start(HostListsMany, MaxRunsHosts)
    \/ Crash
    \/ NewReconcile
    \/ NewCreateSession
    \/ NewResolve
    \/ NewRecordUnknown
    \/ NewUpsert
    \/ NewBootstrapEvent
    \/ NewFinish
    \/ TickStart(MaxTicksHosts)
    \/ \E i \in 1..Len(tasks) : TaskPing(i)
    \/ \E i \in 1..Len(tasks) : TaskFirstConnected(i)
    \/ \E i \in 1..Len(tasks) : TaskEvent(i)
    \/ \E i \in 1..Len(tasks) : TaskRecord(i)
    \/ \E i \in 1..Len(tasks) : TaskCache(i)
    \/ TickEnd

SpecHosts == Init /\ [][NextHosts]_vars

\* One process on a fresh store, one host, a longer run of ticks.
NextTicks ==
    \/ Start(HostListsOne, 1)
    \/ NewReconcile
    \/ NewCreateSession
    \/ NewResolve
    \/ NewUpsert
    \/ NewBootstrapEvent
    \/ NewFinish
    \/ TickStart(MaxTicksLong)
    \/ \E i \in 1..Len(tasks) : TaskPing(i)
    \/ \E i \in 1..Len(tasks) : TaskFirstConnected(i)
    \/ \E i \in 1..Len(tasks) : TaskEvent(i)
    \/ \E i \in 1..Len(tasks) : TaskRecord(i)
    \/ \E i \in 1..Len(tasks) : TaskCache(i)
    \/ TickEnd

SpecTicks == Init /\ [][NextTicks]_vars

\* One host, restarts, and a clock that moves between the ticks.
NextFirst ==
    \/ Advance
    \/ Start(HostListsOne, MaxRunsFirst)
    \/ Crash
    \/ NewReconcile
    \/ NewCreateSession
    \/ NewResolve
    \/ NewUpsert
    \/ NewBootstrapEvent
    \/ NewFinish
    \/ TickStart(MaxTicksFirst)
    \/ \E i \in 1..Len(tasks) : TaskPing(i)
    \/ \E i \in 1..Len(tasks) : TaskFirstConnected(i)
    \/ \E i \in 1..Len(tasks) : TaskEvent(i)
    \/ \E i \in 1..Len(tasks) : TaskRecord(i)
    \/ \E i \in 1..Len(tasks) : TaskCache(i)
    \/ TickEnd

SpecFirst == Init /\ [][NextFirst]_vars


\* One host and three process runs in a row, each ended by shutdown or a
\* crash, under a moving clock.
NextRuns ==
    \/ Advance
    \/ Start(HostListsOne, MaxRunsThree)
    \/ Crash
    \/ NewReconcile
    \/ NewCreateSession
    \/ NewResolve
    \/ NewUpsert
    \/ NewBootstrapEvent
    \/ NewFinish
    \/ Shutdown
    \/ TickStart(MaxTicksRuns)
    \/ \E i \in 1..Len(tasks) : TaskPing(i)
    \/ \E i \in 1..Len(tasks) : TaskFirstConnected(i)
    \/ \E i \in 1..Len(tasks) : TaskEvent(i)
    \/ \E i \in 1..Len(tasks) : TaskRecord(i)
    \/ \E i \in 1..Len(tasks) : TaskCache(i)
    \/ TickEnd

SpecRuns == Init /\ [][NextRuns]_vars


\* One process on a fresh store with two hosts, whose checks interleave.
NextTwo ==
    \/ Start(HostListsTwo, 1)
    \/ NewReconcile
    \/ NewCreateSession
    \/ NewResolve
    \/ NewUpsert
    \/ NewBootstrapEvent
    \/ NewFinish
    \/ TickStart(MaxTicksTwo)
    \/ \E i \in 1..Len(tasks) : TaskPing(i)
    \/ \E i \in 1..Len(tasks) : TaskFirstConnected(i)
    \/ \E i \in 1..Len(tasks) : TaskEvent(i)
    \/ \E i \in 1..Len(tasks) : TaskRecord(i)
    \/ \E i \in 1..Len(tasks) : TaskCache(i)
    \/ TickEnd

SpecTwo == Init /\ [][NextTwo]_vars

\* One process, one host, one call of each query of the API while the
\* monitor ticks; the clock unit is the hour.
NextQuery ==
    \/ Advance
    \/ Start(HostListsOne, 1)
    \/ NewReconcile
    \/ NewCreateSession
    \/ NewResolve
    \/ NewUpsert
    \/ NewBootstrapEvent
    \/ NewFinish
    \/ TickStart(MaxTicksQuery)
    \/ \E i \in 1..Len(tasks) : TaskPing(i)
    \/ \E i \in 1..Len(tasks) : TaskFirstConnected(i)
    \/ \E i \in 1..Len(tasks) : TaskEvent(i)
    \/ \E i \in 1..Len(tasks) : TaskRecord(i)
    \/ \E i \in 1..Len(tasks) : TaskCache(i)
    \/ \E i \in 1..Len(tasks) : TaskCacheWait(i)
    \/ \E i \in 1..Len(tasks) : TaskCacheGranted(i)
    \/ TickEnd
    \/ GetStatus
    \/ GetStatusGranted
    \/ GetTimelinesBegin(0..MaxTime, 0..MaxBucketsQuery)
    \/ GetTimelinesHost
    \/ GetTimelinesEnd

SpecQuery == Init /\ [][NextQuery]_vars


\* The runtime runs every spawned check to its end, check_all_hosts returns
\* once they are joined, and the interval of Monitor::start fires again.
FairTwo ==
    /\ SpecTwo
    /\ WF_vars(TickStart(MaxTicksTwo))
    /\ WF_vars(TickEnd)
    /\ \A i \in 1..2 :
        WF_vars(TaskPing(i) \/ TaskFirstConnected(i) \/ TaskEvent(i)
                \/ TaskRecord(i) \/ TaskCache(i))

(* ----------------------------------------------- the timeline of a store *)
\* A reader of the store asks, once, for the timeline of a host.
GetHostTimeline(host_idents, starts, ends, counts) ==
    /\ timeline.status = "none"
    /\ \E host_id \in host_idents, start_time \in starts, end_time \in ends,
          num_buckets \in counts :
        /\ query' = [host_id |-> host_id, start_time |-> start_time,
                     end_time |-> end_time, num_buckets |-> num_buckets]
        /\ timeline' = get_host_timeline(host_events, server_sessions, host_id,
                                         start_time, end_time, num_buckets)
    /\ UNCHANGED << now, db, pc, mem, ticks, runs, api >>

\* The event logs a monitor can leave for host 1: rows appended at the clock
\* value of their INSERT, hence in the order of their timestamps.
EventRows(times) ==
    [host_id : {1}, event_type : {"online", "offline", "unknown"},
     timestamp : { SqliteNow(t) : t \in times }]

EventLogs(times, max_events) ==
    UNION { { l \in [1..k -> EventRows(times)] :
                \A i \in 1..k - 1 : l[i].timestamp[2] <= l[i + 1].timestamp[2] }
            : k \in 0..max_events }

SessionRow(started_at, stopped_at) ==
    [started_at |-> SqliteNow(started_at),
     stopped_at |-> IF stopped_at = None THEN None
                    ELSE Some(to_rfc3339(Unwrap(stopped_at))),
     shutdown_type |-> IF stopped_at = None THEN None ELSE Some("crashed")]

\* The session logs of at most two sequential runs: the first run's session
\* is closed before the second starts; a session is open, or closed at a time
\* not before the first start (a crashed session is closed at the latest ping
\* of the store, which may precede its own start).
SessionLogs(times) ==
    LET stops(from) == {None} \cup { Some(t) : t \in { u \in times : u >= from } }
    IN {<<>>}
       \cup UNION { { <<SessionRow(s, e)>> : e \in stops(s) } : s \in times }
       \cup UNION { { <<SessionRow(s1, Some(e1)), SessionRow(s2, e2)>> :
                        e2 \in stops(s1) } :
                    <<s1, e1, s2>> \in { x \in times \X times \X times :
                                            x[1] <= x[2] /\ x[2] <= x[3] } }

InitTimeline ==
    /\ now = TlMaxTime
    /\ hosts = upsert_host(<<>>, HostA1).hosts
    /\ host_events \in EventLogs(0..TlMaxTime, TlMaxEvents)
    /\ ping_results = <<>>
    /\ server_sessions \in SessionLogs(0..TlMaxTime)
    /\ pc = "dead"
    /\ cfg = <<>>
    /\ idx = 0
    /\ upserted = NoUpsert
    /\ host_ids = <<>>
    /\ session_id = 0
    /\ status_map = EmptyMap
    /\ tasks = <<>>
    /\ in_tick = FALSE
    /\ ticks = 0
    /\ runs = 0
    /\ boot = NoBoot
    /\ probe_log = <<>>
    /\ query = NoQuery
    /\ timeline = NoTimeline
    /\ api = NoApi

NextTimeline ==
    GetHostTimeline({1}, 0..TlMaxTime, 0..TlMaxTime, 0..TlMaxBuckets)

SpecTimeline == InitTimeline /\ [][NextTimeline]_vars




(* ------------------------------- determine_bucket_state and event order *)
\* The store of InitTimeline, read one clock step later.
InitOrder ==
    /\ now = TlMaxTime + 1
    /\ hosts = upsert_host(<<>>, HostA1).hosts
    /\ host_events \in EventLogs(0..TlMaxTime, TlMaxEvents)
    /\ ping_results = <<>>
    /\ server_sessions \in SessionLogs(0..TlMaxTime)
    /\ pc = "dead"
    /\ cfg = <<>>
    /\ idx = 0
    /\ upserted = NoUpsert
    /\ host_ids = <<>>
    /\ session_id = 0
    /\ status_map = EmptyMap
    /\ tasks = <<>>
    /\ in_tick = FALSE
    /\ ticks = 0
    /\ runs = 0
    /\ boot = NoBoot
    /\ probe_log = <<>>
    /\ query = NoQuery
    /\ timeline = NoTimeline
    /\ api = NoApi

\* determine_bucket_state for one window, called as the bucket tests call it
\* (events of get_host_events, newest first) and as get_host_timeline calls
\* it (events of get_host_events_in_range, oldest first) on the same events
\* and sessions; timeline.buckets keeps the two states in this order.
DetermineBucketState(host_idents, starts, ends) ==
    /\ timeline.status = "none"
    /\ \E host_id \in host_idents, bucket_start \in starts, bucket_end \in ends :
        /\ bucket_start < bucket_end
        /\ query' = [host_id |-> host_id, start_time |-> bucket_start,
                     end_time |-> bucket_end, num_buckets |-> 1]
        /\ LET sessions == get_sessions_in_range(server_sessions, 0, now)
               newest_first == get_host_events(host_events, host_id)
               oldest_first == get_host_events_in_range(host_events, host_id,
                                                        0, now)
           IN timeline' =
                [status |-> "ok",
                 buckets |-> << determine_bucket_state(newest_first, sessions,
                                                       bucket_start, bucket_end),
                                determine_bucket_state(oldest_first, sessions,
                                                       bucket_start, bucket_end) >>,
                 counted |-> <<>>]
    /\ UNCHANGED << now, db, pc, mem, ticks, runs, api >>

NextOrder ==
    DetermineBucketState({1}, 0..TlMaxTime, 1..(TlMaxTime + 1))

SpecOrder == InitOrder /\ [][NextOrder]_vars
(* ------------------------------------------ the scenario of a late outage *)
\* The host has at most ScMaxBefore events before the start T of the range,
\* at the seconds 0..T-1, and one Offline event at T+55 s; one session, open
\* or closed at the end of the range, covers [T, T+120 s]; the reader asks for
\* 6 buckets over that range at its end.
ScenarioT == ScMaxBefore
ScenarioEnd == ScenarioT + 120
ScenarioQuery ==
    [host_id |-> 1, start_time |-> ScenarioT, end_time |-> ScenarioEnd,
     num_buckets |-> 6]

InitScenario ==
    /\ now = ScenarioEnd
    /\ hosts = upsert_host(<<>>, HostA1).hosts
    /\ \E before \in EventLogs(0..ScenarioT - 1, ScMaxBefore) :
        host_events =
            before \o << [host_id |-> 1, event_type |-> "offline",
                          timestamp |-> SqliteNow(ScenarioT + 55)] >>
    /\ ping_results = <<>>
    /\ \E started_at \in 0..ScenarioT, stopped_at \in {None, Some(ScenarioEnd)} :
        server_sessions = << SessionRow(started_at, stopped_at) >>
    /\ pc = "dead"
    /\ cfg = <<>>
    /\ idx = 0
    /\ upserted = NoUpsert
    /\ host_ids = <<>>
    /\ session_id = 0
    /\ status_map = EmptyMap
    /\ tasks = <<>>
    /\ in_tick = FALSE
    /\ ticks = 0
    /\ runs = 0
    /\ boot = NoBoot
    /\ probe_log = <<>>
    /\ query = NoQuery
    /\ timeline = NoTimeline
    /\ api = NoApi

NextScenario ==
    GetHostTimeline({ScenarioQuery.host_id}, {ScenarioQuery.start_time},
                    {ScenarioQuery.end_time}, {ScenarioQuery.num_buckets})

SpecScenario == InitScenario /\ [][NextScenario]_vars

(* ====================================================== the claims ===== *)
Closed(session) == IsSome(session.stopped_at)
StoppedAt(session) == parse_from_rfc3339(Unwrap(session.stopped_at))
StartedAt(session) == parse_from_rfc3339(session.started_at)
OpenSessions == { i \in 1..Len(server_sessions) : ~Closed(server_sessions[i]) }
PingTimes(n) == { parse_from_rfc3339(ping_results[i].timestamp) : i \in 1..n }
IsLatest(t, S) == t \in S /\ \A u \in S : u <= t

\* Monitor::new is at its reconciliation step and finds the most recent
\* session unclosed.
ReconcilesOpenSession ==
    /\ pc = "reconcile" /\ pc' = "create"
    /\ Len(server_sessions) > 0
    /\ ~Closed(server_sessions[Len(server_sessions)])

\* Every session but the n-th is left as it was, and none is added.
OnlySessionChanged(n) ==
    /\ Len(server_sessions') = Len(server_sessions)
    /\ \A i \in 1..Len(server_sessions) :
        i # n => server_sessions'[i] = server_sessions[i]

\* C1 (step): a startup that finds the most recent session unclosed and at
\* least one PingRecord closes that session, and only that one, with stopped_at
\* = the latest PingRecord timestamp of all hosts and shutdown_type "crashed";
\* the step after it appends a new, open session.
C1_ReconcileStep ==
    /\ (ReconcilesOpenSession /\ Len(ping_results) > 0) =>
        LET n == Len(server_sessions) IN
        /\ OnlySessionChanged(n)
        /\ Closed(server_sessions'[n])
        /\ IsLatest(StoppedAt(server_sessions'[n]),
                    PingTimes(Len(ping_results)))
        /\ server_sessions'[n].shutdown_type = Some("crashed")
        /\ server_sessions'[n].started_at = server_sessions[n].started_at
    /\ (pc = "create" /\ pc' = "resolve") =>
        /\ Len(server_sessions') = Len(server_sessions) + 1
        /\ SubSeq(server_sessions', 1, Len(server_sessions)) = server_sessions
        /\ ~Closed(server_sessions'[Len(server_sessions')])
        /\ session_id' = Len(server_sessions')

\* C1 (scenario): the first run left its session unclosed and at least one
\* PingRecord; once the restart has opened its session there are exactly two
\* sessions, the first closed as crashed at the last ping of the first run, the
\* second open (or closed by the second monitor's own shutdown).
C1_Scenario ==
    ( /\ pc \notin {"dead", "reconcile", "create"}
      /\ Len(boot.server_sessions) = 1
      /\ ~Closed(boot.server_sessions[1])
      /\ boot.ping_results > 0 )
    => /\ Len(server_sessions) = 2
       /\ Closed(server_sessions[1])
       /\ server_sessions[1].shutdown_type = Some("crashed")
       /\ IsLatest(StoppedAt(server_sessions[1]), PingTimes(boot.ping_results))
       /\ session_id = 2
       /\ \/ ~Closed(server_sessions[2])
          \/ server_sessions[2].shutdown_type = Some(ShutdownType)

\* C1: crash reconciliation closes the unclosed session at the latest
\* PingRecord timestamp as "crashed" and then opens a new session; after one
\* crashed run and one restart there are exactly two sessions, the first
\* closed as crashed and the second open.
C1_CrashReconciliation == [][C1_ReconcileStep]_vars /\ []C1_Scenario

\* C1 witness: the restart after a crash has closed session 1 as crashed at the
\* later of two pings taken at different times, and session 2 is open.
C1_Witness ==
    /\ pc = "running"
    /\ Len(server_sessions) = 2
    /\ server_sessions[1].shutdown_type = Some("crashed")
    /\ ~Closed(server_sessions[2])
    /\ boot.ping_results = 2
    /\ \E t \in PingTimes(2) : t < StoppedAt(server_sessions[1])

\* C2: at most one session is unclosed, and from the moment a monitor has
\* passed its reconciliation step the only session that can be unclosed is the
\* one that monitor created.
C2_OneOpenSession ==
    /\ Cardinality(OpenSessions) <= 1
    /\ pc \notin {"dead", "reconcile"} => OpenSessions \subseteq {session_id}

\* C2 witness: a second monitor is running on its own open session while the
\* session of the crashed first run has been closed.
C2_Witness ==
    /\ pc = "running"
    /\ Len(server_sessions) = 2
    /\ OpenSessions = {2}
    /\ session_id = 2
    /\ server_sessions[1].shutdown_type \in {Some("crashed"), Some("unknown")}

\* C3 (as claimed): once a session's stopped_at is set, no later step changes
\* that session's stopped_at or shutdown_type.
C3_ClosedIsTerminal ==
    [][\A i \in 1..Len(server_sessions) :
           Closed(server_sessions[i]) =>
               /\ server_sessions'[i].stopped_at = server_sessions[i].stopped_at
               /\ server_sessions'[i].shutdown_type =
                      server_sessions[i].shutdown_type]_vars

\* C4 (as claimed): Monitor::shutdown closes the monitor's session with
\* stopped_at = now and shutdown_type "clean", and every closed session has
\* shutdown_type "clean", "crashed" or "unknown".
C4_ShutdownIsClean ==
    [][(pc = "running" /\ server_sessions' # server_sessions) =>
           /\ OnlySessionChanged(session_id)
           /\ Closed(server_sessions'[session_id])
           /\ StoppedAt(server_sessions'[session_id]) = now
           /\ server_sessions'[session_id].shutdown_type = Some("clean")
           /\ \A i \in 1..Len(server_sessions') :
                  Closed(server_sessions'[i]) =>
                      server_sessions'[i].shutdown_type \in
                          {Some("clean"), Some("crashed"), Some("unknown")}]_vars

\* C5 (step): a startup that finds the most recent session unclosed and no
\* PingRecord at all closes that session, and only that one, with stopped_at =
\* the session's own started_at and shutdown_type "unknown", without yet
\* adding the new session.
C5_ReconcileStep ==
    (ReconcilesOpenSession /\ Len(ping_results) = 0) =>
        LET n == Len(server_sessions) IN
        /\ OnlySessionChanged(n)
        /\ Closed(server_sessions'[n])
        /\ StoppedAt(server_sessions'[n]) = StartedAt(server_sessions[n])
        /\ server_sessions'[n].shutdown_type = Some("unknown")
        /\ server_sessions'[n].started_at = server_sessions[n].started_at

\* C5: with the most recent session unclosed and no PingRecord ever recorded,
\* startup closes it with stopped_at = its own started_at and shutdown_type
\* "unknown" before opening the new session; so every session marked
\* "unknown" stopped when it started.
C5_UnknownReconciliation ==
    /\ [][C5_ReconcileStep]_vars
    /\ [](\A i \in 1..Len(server_sessions) :
             server_sessions[i].shutdown_type = Some("unknown") =>
                 /\ Closed(server_sessions[i])
                 /\ StoppedAt(server_sessions[i]) = StartedAt(server_sessions[i]))

\* C5 witness: a restart, later than the first start, has closed the pingless
\* first session as unknown at its own start time and has not yet opened the
\* new session.
C5_Witness ==
    /\ pc = "create"
    /\ Len(server_sessions) = 1
    /\ server_sessions[1].shutdown_type = Some("unknown")
    /\ StoppedAt(server_sessions[1]) = StartedAt(server_sessions[1])
    /\ StartedAt(server_sessions[1]) < now
    /\ Len(ping_results) = 0


EventsOf(host_id) ==
    { i \in 1..Len(host_events) : host_events[i].host_id = host_id }

\* C6 (as claimed): whatever the startups, crashes, restarts and ticks, the
\* earliest HostEvent ever recorded for a host has kind Offline.
C6_FirstEventOffline ==
    \A h \in 1..Len(hosts) :
        EventsOf(h) # {} => host_events[Min(EventsOf(h))].event_type = "offline"

\* The events recorded for a host since the current process started.
EventsSinceBoot(host_id) == { i \in EventsOf(host_id) : i > boot.host_events }

\* C7: for every host that was in the store when the monitor started, the
\* first HostEvent recorded since that start has kind Unknown; and once
\* Monitor::new has returned, which is before any tick, every such host of the
\* resolved host set has that event.
C7_ExistingHostUnknown ==
    \A h \in 1..boot.hosts :
        /\ EventsSinceBoot(h) # {} =>
               host_events[Min(EventsSinceBoot(h))].event_type = "unknown"
        /\ (pc = "running" /\ h \in HostIdSet(host_ids)) =>
               EventsSinceBoot(h) # {}
        /\ in_tick => pc = "running"

\* C7 witness: a restarted monitor given an explicit list has probed a host
\* that was already in the store, after recording Unknown for it.
C7_Witness ==
    /\ pc = "running"
    /\ cfg # <<>>
    /\ \E i \in 1..Len(host_ids) :
        /\ host_ids[i][1] <= boot.hosts
        /\ Len(probe_log[i]) > 0
        /\ Cardinality(EventsSinceBoot(host_ids[i][1])) > 1

SamePair(row, config) ==
    /\ row.hostname = config.hostname
    /\ IpParse(row.ip_address) = config.ip_address

\* C8 (step): upsert_host of a pair that has a row returns that row's id with
\* is_new = false and leaves the table alone; of a pair that has none, adds
\* one row for it and returns the new id with is_new = true.
C8_UpsertStep ==
    (pc = "upsert" /\ pc' = "event") =>
        LET config == cfg[idx]
            present == { i \in 1..Len(hosts) : SamePair(hosts[i], config) }
        IN IF present # {}
           THEN /\ hosts' = hosts
                /\ upserted'.id \in present
                /\ upserted'.is_new = FALSE
           ELSE /\ Len(hosts') = Len(hosts) + 1
                /\ SubSeq(hosts', 1, Len(hosts)) = hosts
                /\ SamePair(hosts'[Len(hosts')], config)
                /\ upserted'.id = Len(hosts')
                /\ upserted'.is_new = TRUE

\* C8: host identity is idempotent: an upsert of a pair already present
\* returns its id with is_new = false and adds no row, so the table holds at
\* most one row per (hostname, address) pair and every entry of the monitor's
\* host list carries the id of the row of its own pair.
C8_UpsertIdempotent ==
    /\ [][C8_UpsertStep]_vars
    /\ [](\A i, j \in 1..Len(hosts) :
             (hosts[i].hostname = hosts[j].hostname
              /\ hosts[i].ip_address = hosts[j].ip_address) => i = j)
    /\ [](\A k \in 1..Len(host_ids) :
             SamePair(hosts[host_ids[k][1]], host_ids[k][2]))

\* C8 witness: the store holds two hosts of one hostname and different
\* addresses, and an upsert of a pair already present has just returned.
C8_Witness ==
    /\ pc = "event"
    /\ upserted.id >= 1
    /\ upserted.is_new = FALSE
    /\ \E i, j \in 1..Len(hosts) :
        /\ i # j
        /\ hosts[i].hostname = hosts[j].hostname
        /\ hosts[i].ip_address # hosts[j].ip_address

\* The cached status of the host of task i, and the classification of its
\* probe.
Cached(i) ==
    IF host_ids[i][1] \in DOMAIN status_map
    THEN Some(status_map[host_ids[i][1]].status) ELSE None
NewStatus(i) ==
    IF Unwrap(tasks[i].result).success_count > 0 THEN "Online" ELSE "Offline"
Differs(i) == IsNone(Cached(i)) \/ Cached(i) # Some(NewStatus(i))

C9_EventStep ==
    /\ \A i \in 1..Len(tasks) :
          (pc = "running" /\ pc' = "running" /\ tasks[i].pc = "event"
           /\ tasks'[i].pc = "record")
          => IF Differs(i)
             THEN /\ host_events' = Append(host_events,
                         [host_id |-> host_ids[i][1],
                          event_type |-> IF NewStatus(i) = "Online"
                                         THEN "online" ELSE "offline",
                          timestamp |-> SqliteNow(now)])
                  /\ tasks'[i].emitted
             ELSE /\ host_events' = host_events
                  /\ ~tasks'[i].emitted
    /\ (pc = "running" /\ pc' = "running" /\ host_events' # host_events) =>
          \E i \in 1..Len(tasks) :
              tasks[i].pc = "event" /\ tasks'[i].pc = "record"

OnOffOn(i, k) ==
    /\ k + 2 <= Len(probe_log[i])
    /\ probe_log[i][k].status = "Online"
    /\ probe_log[i][k + 1].status = "Offline"
    /\ probe_log[i][k + 2].status = "Online"
    /\ \A d \in 0..2 : probe_log[i][k + d].ok

\* The number of HostEvents the probes k..k+2 of task i appended.
EventsOfThree(i, k) ==
    Cardinality({ d \in 0..2 : probe_log[i][k + d].emitted })

\* How many HostEvents the checks of this process have appended, by the log
\* of finished checks and the check in flight.
EmittedSoFar(i) ==
    Cardinality({ k \in 1..Len(probe_log[i]) : probe_log[i][k].emitted })
    + (IF tasks[i].pc \in {"record", "cache"} /\ tasks[i].emitted
       THEN 1 ELSE 0)

\* C10 (as claimed): three consecutive ticks classified Online, Offline,
\* Online without persistence failure record exactly two new HostEvents.
C10_TwoEvents ==
    \A i \in 1..Len(probe_log) : \A k \in 1..Len(probe_log[i]) :
        OnOffOn(i, k) => EventsOfThree(i, k) = 2

\* C10 (amended): three consecutive ticks classified Online, Offline, Online
\* without persistence failure record exactly two new HostEvents when the
\* host's cached status before the first of them is Online, and exactly three
\* when it is Offline, as it is for the first tick after a startup; the events
\* counted are the rows the event log gained after the bootstrap event.
C10_TwoOrThreeEvents ==
    /\ \A i \in 1..Len(probe_log) : \A k \in 1..Len(probe_log[i]) :
        OnOffOn(i, k) =>
            /\ probe_log[i][k].prev_status \in {Some("Online"), Some("Offline")}
            /\ probe_log[i][k].prev_status = Some("Online") =>
                   EventsOfThree(i, k) = 2
            /\ probe_log[i][k].prev_status = Some("Offline") =>
                   EventsOfThree(i, k) = 3
            /\ k = 1 => probe_log[i][k].prev_status = Some("Offline")
    /\ pc = "running" => Len(host_events) = 1 + EmittedSoFar(1)

\* C10 witness: after an Online tick, three ticks classified Online, Offline,
\* Online have added exactly two events.
C10_Witness ==
    /\ Len(probe_log) = 1
    /\ OnOffOn(1, 2)
    /\ probe_log[1][2].prev_status = Some("Online")
    /\ EventsOfThree(1, 2) = 2
    /\ Len(host_events) = 4

\* No check of this process has finished yet.
NoProbeCompleted == \A i \in 1..Len(probe_log) : probe_log[i] = <<>>

\* C11: once Monitor::new has returned and before any probe has completed,
\* get_status holds exactly one entry per resolved host, with that host's name
\* and address, status Offline, success_count 0, total_count 0 and no latency,
\* and holds no other entry.
C11_InitialStatus ==
    (pc = "running" /\ NoProbeCompleted) =>
        /\ \A i \in 1..Len(host_ids) :
            LET mine == { e \in get_status : e.id = host_ids[i][1] } IN
            /\ Cardinality(mine) = 1
            /\ \A e \in mine :
                /\ e.hostname = host_ids[i][2].hostname
                /\ e.ip_address = host_ids[i][2].ip_address
                /\ e.status = "Offline"
                /\ e.success_count = 0
                /\ e.total_count = 0
                /\ e.avg_latency_ms = <<>>
        /\ \A e \in get_status : \E i \in 1..Len(host_ids) : e.id = host_ids[i][1]
        /\ Cardinality(get_status) = Cardinality({ host_ids[i][1] : i \in 1..Len(host_ids) })

\* C11 witness: a monitor of two different hosts is in its first tick, one
\* probe has been answered and none has completed, and both hosts are listed.
C11_Witness ==
    /\ pc = "running"
    /\ in_tick
    /\ NoProbeCompleted
    /\ Cardinality(get_status) = 2
    /\ \E i \in 1..Len(tasks) :
        /\ tasks[i].pc = "record"
        /\ Unwrap(tasks[i].result).success_count = 1

\* C12 (as claimed): every probe that is not answered (timeout, unreachable
\* host, transport or probe error) yields a result classified Offline and goes
\* on to the event decision like any failed probe; the per-host check never
\* ends at its probe.
C12_FailureIsOffline ==
    [][\A i \in 1..Len(tasks) :
          (pc = "running" /\ pc' = "running" /\ tasks[i].pc = "ping"
           /\ tasks'[i].pc # "ping")
          => /\ tasks'[i].result # <<>>
             /\ tasks'[i].pc \in {"first", "event"}
             /\ tasks'[i].pc = "event" =>
                    Unwrap(tasks'[i].result).success_count = 0]_vars

LastOf(s) == s[Len(s)]
PingsOf(host_id) ==
    { i \in 1..Len(ping_results) : ping_results[i].host_id = host_id }

\* The check ended with Err at its event write or at its ping-record write
\* (the cached status had been read by then).
FailedAtWrite(entry) == ~entry.ok /\ entry.prev_status # <<>>

\* The check of task b, ended with Ok, has left its event (when due), its
\* PingRecord and its cache entry.
CheckEffects(b) ==
    LET e == LastOf(probe_log[b])
        h == host_ids[b][1]
        r == Unwrap(tasks[b].result)
    IN /\ e.emitted <=> (e.prev_status # <<e.status>>)
       /\ e.emitted =>
            /\ EventsOf(h) # {}
            /\ host_events[Max(EventsOf(h))].event_type =
                   (IF e.status = "Online" THEN "online" ELSE "offline")
       /\ PingsOf(h) # {}
       /\ ping_results[Max(PingsOf(h))].success_count = r.success_count
       /\ ping_results[Max(PingsOf(h))].total_count = r.total_count
       /\ h \in DOMAIN status_map
       /\ status_map[h].status = e.status
       /\ status_map[h].success_count = r.success_count
       /\ status_map[h].total_count = r.total_count
       /\ status_map[h].last_check = r.timestamp

\* C13: when all the checks of a tick are over and the check of host A failed
\* at its event or ping-record write, the check of every other host B of the
\* tick has run to its own end, and if B's own writes were accepted B's event
\* (when due), PingRecord and cache update are in place.
C13_FailureIsIsolated ==
    (pc = "running" /\ in_tick /\ \A i \in 1..Len(tasks) : tasks[i].pc = "done") =>
        \A a, b \in 1..Len(tasks) :
            ( /\ host_ids[a][1] # host_ids[b][1]
              /\ Len(probe_log[a]) > 0
              /\ FailedAtWrite(LastOf(probe_log[a])) )
            => /\ Len(probe_log[b]) = Len(probe_log[a])
               /\ LastOf(probe_log[b]).ok => CheckEffects(b)

\* C13 witness: a tick is over in which the check of one host failed at a
\* write and the check of another host recorded its event.
C13_Witness ==
    /\ pc = "running"
    /\ ~in_tick
    /\ \E a, b \in 1..Len(probe_log) :
        /\ host_ids[a][1] # host_ids[b][1]
        /\ Len(probe_log[a]) > 0 /\ Len(probe_log[b]) > 0
        /\ FailedAtWrite(LastOf(probe_log[a]))
        /\ LastOf(probe_log[b]).ok
        /\ LastOf(probe_log[b]).emitted

IsOk(entry) == entry.ok

\* C14 (step): a check whose ping-record write is accepted appends exactly one
\* PingRecord with its host id and its probe's counts and latency, and no
\* other step of a running monitor changes the ping log.
C14_RecordStep ==
    /\ \A i \in 1..Len(tasks) :
          (pc = "running" /\ pc' = "running" /\ tasks[i].pc = "record"
           /\ tasks'[i].pc = "cache")
          => LET r == Unwrap(tasks[i].result) IN
             /\ Len(ping_results') = Len(ping_results) + 1
             /\ SubSeq(ping_results', 1, Len(ping_results)) = ping_results
             /\ LET row == ping_results'[Len(ping_results')] IN
                /\ row.host_id = host_ids[i][1]
                /\ row.success_count = r.success_count
                /\ row.total_count = r.total_count
                /\ row.avg_latency_ms =
                       (IF r.latencies_ms = <<>> THEN <<>> ELSE <<r.latencies_ms[1]>>)
    /\ (pc = "running" /\ pc' = "running" /\ ping_results' # ping_results) =>
          \E i \in 1..Len(tasks) :
              tasks[i].pc = "record" /\ tasks'[i].pc = "cache"

\* C14: every probe that completes with its writes accepted appends exactly
\* one PingRecord with that probe's counts, whether or not the classification
\* changed: the ping log of the run is, row for row, the sequence of the
\* checks that ended with Ok, plus the row of a check that has written its
\* record and not yet its cache entry.
C14_OneRecordPerProbe ==
    /\ [][C14_RecordStep]_vars
    /\ [](pc = "running" =>
            LET oks == SelectSeq(probe_log[1], IsOk) IN
            /\ Len(ping_results) =
                   Len(oks) + (IF tasks[1].pc = "cache" THEN 1 ELSE 0)
            /\ \A k \in 1..Len(oks) :
                   /\ ping_results[k].total_count = 1
                   /\ ping_results[k].success_count =
                          (IF oks[k].status = "Online" THEN 1 ELSE 0))

\* C14 witness: two consecutive probes with the same classification, the
\* second of which appended no event, have each appended a PingRecord.
C14_Witness ==
    /\ pc = "running"
    /\ Len(probe_log) = 1
    /\ Len(probe_log[1]) = 2
    /\ probe_log[1][1].ok /\ probe_log[1][2].ok
    /\ probe_log[1][1].status = "Online" /\ probe_log[1][2].status = "Online"
    /\ ~probe_log[1][2].emitted
    /\ Len(ping_results) = 2

\* The first_connected write of an Online probe of task i has just been tried.
FirstConnectedTried(i) ==
    /\ pc = "running" /\ pc' = "running"
    /\ tasks[i].pc = "first" /\ tasks'[i].pc # "first"

\* C15 (as claimed): a host's first_connected is unset in a new row, every
\* Online probe leaves it set (to the probe's timestamp if it was unset), and
\* no step changes it once it is set.
C15_WriteOnce ==
    [][/\ \A h \in 1..Len(hosts) :
            hosts[h].first_inserted # <<>> =>
                hosts'[h].first_inserted = hosts[h].first_inserted
       /\ \A i \in 1..Len(tasks) :
            FirstConnectedTried(i) =>
                LET h == host_ids[i][1] IN
                /\ hosts'[h].first_inserted # <<>>
                /\ hosts[h].first_inserted = <<>> =>
                       hosts'[h].first_inserted =
                           << <<"rfc3339", Unwrap(tasks[i].result).timestamp>> >>]_vars

\* C15 (amended, step): a row is created with first_connected unset; the only
\* step that changes the column is the accepted first_connected write of an
\* Online probe of that host, which sets an unset value to the probe's
\* timestamp; a set value is never changed, and rows are never removed.
C15_FirstConnectedStep ==
    /\ Len(hosts') >= Len(hosts)
    /\ \A h \in 1..Len(hosts') : h > Len(hosts) => hosts'[h].first_inserted = <<>>
    /\ \A h \in 1..Len(hosts) :
        /\ hosts[h].first_inserted # <<>> =>
               hosts'[h].first_inserted = hosts[h].first_inserted
        /\ hosts'[h].first_inserted # hosts[h].first_inserted =>
               \E i \in 1..Len(tasks) :
                   /\ tasks[i].pc = "first" /\ pc' = "running"
                   /\ tasks'[i].pc = "event"
                   /\ host_ids[i][1] = h
                   /\ Unwrap(tasks[i].result).success_count > 0
                   /\ hosts'[h].first_inserted =
                          << <<"rfc3339", Unwrap(tasks[i].result).timestamp>> >>
    /\ \A i \in 1..Len(tasks) :
        (pc = "running" /\ pc' = "running" /\ tasks[i].pc = "first"
         /\ tasks'[i].pc = "event")
        => hosts'[host_ids[i][1]].first_inserted # <<>>

\* C15 (amended): first_connected is write-once: it is unset until an Online
\* probe of the host has its first_connected write accepted, is then set to
\* that probe's timestamp, and no later probe, restart or other operation
\* changes it.
C15_WriteOnce_Amended == [][C15_FirstConnectedStep]_vars

\* C15 witness: after a restart, an Online probe later than the one that set
\* first_connected has had its write accepted and the value is the old one.
C15_Witness ==
    /\ pc = "running"
    /\ runs = 2
    /\ Len(tasks) = 1
    /\ tasks[1].pc = "event"
    /\ Unwrap(tasks[1].result).success_count > 0
    /\ hosts[1].first_inserted # <<>>
    /\ Unwrap(hosts[1].first_inserted)[2] < Unwrap(tasks[1].result).timestamp

(* ------------------------------------------------ the claims on timelines *)
\* The call returned, for a range start < end.
Answered ==
    /\ timeline.status = "ok"
    /\ query.start_time < query.end_time
    /\ query.num_buckets >= 1

\* The window of bucket i (1-based): [WindowStart(i), WindowEnd(i)).
Width == (query.end_time - query.start_time) \div query.num_buckets
WindowStart(i) == query.start_time + (i - 1) * Width
WindowEnd(i) == WindowStart(i) + Width

SessionStart(k) == server_sessions[k].started_at[2]
SessionEnd(k) ==
    IF server_sessions[k].stopped_at = <<>> THEN now
    ELSE server_sessions[k].stopped_at[1][2]

\* Some session's interval [started_at, stopped_at-or-now) overlaps window i.
Covered(i) ==
    \E k \in 1..Len(server_sessions) :
        SessionStart(k) < WindowEnd(i) /\ WindowStart(i) < SessionEnd(k)

\* The events of the queried host whose timestamp lies in window i.
EventsIn(i) ==
    { e \in 1..Len(host_events) :
        /\ host_events[e].host_id = query.host_id
        /\ WindowStart(i) <= host_events[e].timestamp[2]
        /\ host_events[e].timestamp[2] < WindowEnd(i) }

C17_PriorityLaw ==
    Answered =>
        \A i \in 1..Len(timeline.buckets) :
            (Covered(i) /\ \E e \in EventsIn(i) : host_events[e].event_type = "offline")
            => timeline.buckets[i] = "Offline"

\* C17 witness: a covered window holds an Offline event followed by an event of
\* another kind, and its bucket is Offline.
C17_Witness ==
    /\ Answered
    /\ \E i \in 1..Len(timeline.buckets) :
        /\ Covered(i)
        /\ timeline.buckets[i] = "Offline"
        /\ \E e1, e2 \in EventsIn(i) :
            /\ e1 < e2
            /\ host_events[e1].event_type = "offline"
            /\ host_events[e2].event_type # "offline"


\* The bucket state an event type stands for when it is inherited.
Implied(event_type) ==
    CASE event_type = "online" -> "Online"
      [] event_type = "offline" -> "Offline"
      [] event_type = "unknown" -> "NoData"

\* The events of the queried host strictly before the start of window i.
EventsBefore(i) ==
    { e \in 1..Len(host_events) :
        /\ host_events[e].host_id = query.host_id
        /\ host_events[e].timestamp[2] < WindowStart(i) }

\* The state window i inherits: that of a nearest event before it, NoData
\* when the host has no earlier event.
Inherits(i, state) ==
    IF EventsBefore(i) = {} THEN state = "NoData"
    ELSE \E e \in EventsBefore(i) :
            /\ \A f \in EventsBefore(i) :
                host_events[f].timestamp[2] <= host_events[e].timestamp[2]
            /\ state = Implied(host_events[e].event_type)

\* C18: inheritance law: a bucket covered by a session with no event of the
\* host in its window reports the state implied by the host's nearest event
\* strictly before the window start (Online, Offline, or NoData for Unknown),
\* and NoData only when the host has no earlier event at all.
C18_InheritanceLaw ==
    Answered =>
        \A i \in 1..Len(timeline.buckets) :
            (Covered(i) /\ EventsIn(i) = {}) => Inherits(i, timeline.buckets[i])


\* The store is the one of the scenario: a session covers the whole range and
\* the host's only event at or after T is an Offline event at T+55 s.
ScenarioHolds ==
    /\ query = ScenarioQuery
    /\ timeline.status = "ok"
    /\ \E k \in 1..Len(server_sessions) :
        SessionStart(k) <= ScenarioT /\ SessionEnd(k) >= ScenarioEnd
    /\ \E e \in 1..Len(host_events) :
        /\ host_events[e].host_id = 1
        /\ host_events[e].event_type = "offline"
        /\ host_events[e].timestamp[2] = ScenarioT + 55
        /\ \A f \in 1..Len(host_events) :
            (host_events[f].host_id = 1 /\ host_events[f].timestamp[2] >= ScenarioT)
            => f = e

\* C19: get_timeline(host, T, T+120 s, 6) in the scenario returns, for the two
\* buckets before T+40 s, Online or the baseline inherited from the host's
\* events before T, and Offline for the bucket covering T+55 s and for every
\* later bucket up to T+120 s.
C19_Scenario ==
    ScenarioHolds =>
        /\ Len(timeline.buckets) = 6
        /\ \A i \in 1..2 :
            timeline.buckets[i] = "Online" \/ Inherits(1, timeline.buckets[i])
        /\ \A i \in 3..6 : timeline.buckets[i] = "Offline"


\* The events of the queried host from the start of the range up to, and
\* not including, the start of window i.
EventsBeforeInRange(i) ==
    { e \in EventsBefore(i) : host_events[e].timestamp[2] >= query.start_time }

\* `state` is the state of window i on the sessions and the events of the
\* range: NoData when no session covers it, else Offline, NoData (Unknown) or
\* Online by the events in it, else the state of a nearest earlier event of
\* the range, else NoData.
WindowState(i, state) ==
    LET has(event_type) ==
            \E e \in EventsIn(i) : host_events[e].event_type = event_type
    IN IF ~Covered(i) THEN state = "NoData"
       ELSE IF has("offline") THEN state = "Offline"
       ELSE IF has("unknown") THEN state = "NoData"
       ELSE IF has("online") THEN state = "Online"
       ELSE IF EventsBeforeInRange(i) = {} THEN state = "NoData"
       ELSE \E e \in EventsBeforeInRange(i) :
               /\ \A f \in EventsBeforeInRange(i) :
                   host_events[f].timestamp[2] <= host_events[e].timestamp[2]
               /\ state = Implied(host_events[e].event_type)

\* C20: for start < end and num_buckets >= 1 the timeline has exactly
\* num_buckets states and, counting from 0, the i-th is the state of the
\* window [start + i*width, start + (i+1)*width) with
\* width = floor((end - start) / num_buckets), in chronological order.
C20_BucketsAreWindows ==
    Answered =>
        /\ Len(timeline.buckets) = query.num_buckets
        /\ \A i \in 1..query.num_buckets : WindowState(i, timeline.buckets[i])

\* C20 witness: a timeline of two buckets of positive width whose states
\* differ, the earlier window's state first.
C20_Witness ==
    /\ Answered
    /\ query.num_buckets = 2
    /\ Width >= 1
    /\ Len(timeline.buckets) = 2
    /\ timeline.buckets[1] = "Offline"
    /\ timeline.buckets[2] = "Online"
    /\ \E e \in EventsIn(1) : host_events[e].event_type = "offline"
    /\ \E e \in EventsIn(2) : host_events[e].event_type = "online"


\* Window i holds an event of the queried host of the given kind.
Holds(i, event_type) ==
    \E e \in EventsIn(i) : host_events[e].event_type = event_type

\* C21: a bucket whose window is covered by a session and holds no Offline
\* event but at least one Unknown event is NoData, even when the window also
\* holds Online events.
C21_UnknownIsNoData ==
    Answered =>
        \A i \in 1..Len(timeline.buckets) :
            (Covered(i) /\ ~Holds(i, "offline") /\ Holds(i, "unknown"))
            => timeline.buckets[i] = "NoData"

\* C21 witness: a covered window holds an Unknown and an Online event and no
\* Offline event, and its bucket is NoData.
C21_Witness ==
    /\ Answered
    /\ \E i \in 1..Len(timeline.buckets) :
        /\ Covered(i)
        /\ Holds(i, "unknown") /\ Holds(i, "online") /\ ~Holds(i, "offline")
        /\ timeline.buckets[i] = "NoData"

\* C22: a bucket whose window is covered by a session and whose events inside
\* the window are all Online, at least one, is Online, whatever the host's
\* state before the window was.
C22_OnlineIsOnline ==
    Answered =>
        \A i \in 1..Len(timeline.buckets) :
            (Covered(i) /\ EventsIn(i) # {}
             /\ \A e \in EventsIn(i) : host_events[e].event_type = "online")
            => timeline.buckets[i] = "Online"

\* C22 witness: the window of an Online bucket holds only Online events and
\* the host's latest event before it, inside the range, is Offline.
C22_Witness ==
    /\ Answered
    /\ \E i \in 1..Len(timeline.buckets) :
        /\ Covered(i)
        /\ EventsIn(i) # {}
        /\ \A e \in EventsIn(i) : host_events[e].event_type = "online"
        /\ EventsBeforeInRange(i) # {}
        /\ \A e \in EventsBeforeInRange(i) : host_events[e].event_type = "offline"
        /\ timeline.buckets[i] = "Online"


\* The buckets of the timeline in which event e of the store was counted.
CountedIn(e) ==
    { i \in 1..Len(timeline.counted) : e \in timeline.counted[i] }

TickJoined ==
    /\ pc = "running"
    /\ in_tick
    /\ \A i \in 1..Len(tasks) : tasks[i].pc = "done"

\* The cache entry a check writes for its probe result.
EntryOf(i) ==
    LET r == tasks[i].result[1] IN
    [id |-> host_ids[i][1], hostname |-> host_ids[i][2].hostname,
     ip_address |-> host_ids[i][2].ip_address,
     status |-> IF r.success_count > 0 THEN "Online" ELSE "Offline",
     last_check |-> r.timestamp,
     success_count |-> r.success_count, total_count |-> r.total_count,
     avg_latency_ms |-> IF r.latencies_ms = <<>> THEN <<>>
                        ELSE <<r.latencies_ms[1]>>]

\* C25: when the checks of a tick are over and every one of them succeeded,
\* the cache entry of every host is the entry of that host's own probe result
\* of this tick, however the checks of the hosts interleaved.
C25_CacheIsOwnResult ==
    (TickJoined /\ \A i \in 1..Len(tasks) : LastOf(probe_log[i]).ok) =>
        /\ DOMAIN status_map = { host_ids[i][1] : i \in 1..Len(host_ids) }
        /\ \A h \in DOMAIN status_map :
            \E i \in 1..Len(tasks) :
                host_ids[i][1] = h /\ status_map[h] = EntryOf(i)

\* C25 witness: the checks of two hosts succeeded in the second tick with
\* different results, each other than the host's result of the first tick.
C25_Witness ==
    /\ TickJoined
    /\ Len(tasks) = 2
    /\ host_ids[1][1] # host_ids[2][1]
    /\ \A i \in 1..2 :
        /\ Len(probe_log[i]) = 2
        /\ probe_log[i][1].ok /\ probe_log[i][2].ok
        /\ probe_log[i][1].status # probe_log[i][2].status
    /\ probe_log[1][2].status # probe_log[2][2].status
    /\ status_map[host_ids[1][1]] = EntryOf(1)
    /\ status_map[host_ids[2][1]] = EntryOf(2)


\* C26: a tick completes only after every check it launched has finished, so
\* the checks of two ticks never run concurrently: when a tick starts no check
\* of an earlier tick is in flight, and the cache holds what every successful
\* check of the tick before has written.
C26_TickJoinsTasks ==
    [][ /\ (pc = "running" /\ pc' = "running" /\ in_tick /\ ~in_tick') =>
            \A i \in 1..Len(tasks) : tasks[i].pc = "done"
        /\ (ticks' # ticks) =>
            /\ ~in_tick
            /\ \A i \in 1..Len(tasks) :
                /\ tasks[i].pc = "idle"
                /\ (probe_log[i] # <<>> /\ LastOf(probe_log[i]).ok) =>
                    status_map[host_ids[i][1]].status = LastOf(probe_log[i]).status
      ]_vars

\* C26 witness: a check of the second tick is about to read the cached status
\* that the host's check of the first tick, the later of the two checks of
\* that tick to finish, has written.
C26_Witness ==
    /\ pc = "running"
    /\ in_tick
    /\ ticks = 2
    /\ Len(tasks) = 2
    /\ tasks[1].pc = "event"
    /\ Len(probe_log[1]) = 1 /\ Len(probe_log[2]) = 1
    /\ probe_log[1][1].ok
    /\ probe_log[1][1].status = "Online"
    /\ status_map[host_ids[1][1]].status = "Online"


\* C27: within a tick, as soon as the check of a host has completed with Ok,
\* its event (when due), its PingRecord and its cache entry are in the logs
\* and in get_status, whatever the checks of the other hosts of the tick have
\* reached.
C27_VisibleAtOnce ==
    (pc = "running" /\ in_tick) =>
        \A b \in 1..Len(tasks) :
            (tasks[b].pc = "done" /\ LastOf(probe_log[b]).ok) =>
                /\ CheckEffects(b)
                /\ EntryOf(b) \in get_status

\* C27 witness: in the second tick the check of one host has completed with a
\* new event while the probe of the other host has not yet returned.
C27_Witness ==
    /\ pc = "running"
    /\ in_tick
    /\ ticks = 2
    /\ \E a, b \in 1..Len(tasks) :
        /\ host_ids[a][1] # host_ids[b][1]
        /\ tasks[a].pc = "ping"
        /\ tasks[b].pc = "done"
        /\ LastOf(probe_log[b]).ok
        /\ LastOf(probe_log[b]).emitted
        /\ EntryOf(b) \in get_status
        /\ ping_results[Len(ping_results)].host_id = host_ids[b][1]


\* C28: under fairness, once the checks of a tick are over and the check of
\* some host has failed (its probe could not be set up, or a store write was
\* refused), the loop goes on to the next tick (as long as fewer than
\* MaxTicksTwo were made), and that tick launches a check, starting with the
\* probe, for every host, the failed one included.
C28_LoopSurvivesFailure ==
    (TickJoined /\ ticks < MaxTicksTwo
     /\ \E i \in 1..Len(tasks) : ~LastOf(probe_log[i]).ok)
    ~> (in_tick /\ \A i \in 1..Len(tasks) : tasks[i].pc = "ping")

\* C28 witness: in the first tick the probe of one host could not be set up
\* and a write of the other host's check was refused; both hosts have been
\* checked again, with Ok, in the second tick.
C28_Witness ==
    /\ pc = "running"
    /\ ticks = 2
    /\ Len(probe_log) = 2
    /\ \A i \in 1..2 : Len(probe_log[i]) = 2 /\ probe_log[i][2].ok
    /\ probe_log[1][1].status = "Error"
    /\ FailedAtWrite(probe_log[2][1])


(* ------------------------------------------------ the claims on Unknown *)
\* C30: Unknown events are written only by startup: every HostEvent a tick
\* appends is Online or Offline, and an Unknown event is appended only by a
\* Monitor::new that has opened its session and has not yet returned, hence
\* before the first tick of that session.
C30_UnknownOnlyAtStartup ==
    [][ (Len(host_events') > Len(host_events)) =>
            LET e == host_events'[Len(host_events')] IN
            /\ pc = "running" => e.event_type \in {"online", "offline"}
            /\ e.event_type = "unknown" =>
                /\ pc \in {"load", "event"}
                /\ session_id = Len(server_sessions)
                /\ session_id > 0
                /\ server_sessions[session_id].stopped_at = <<>>
                /\ tasks = <<>>
      ]_vars

\* C30 witness: the log of a running monitor holds an Unknown event written
\* at its startup and, after it, an Offline event written by a tick.
C30_Witness ==
    /\ pc = "running"
    /\ \E u, d \in 1..Len(host_events) :
        /\ u > boot.host_events
        /\ u < d
        /\ host_events[u].event_type = "unknown"
        /\ host_events[d].event_type = "offline"
        /\ host_events[d].host_id = host_events[u].host_id
    /\ \E i \in 1..Len(probe_log) :
        probe_log[i] # <<>> /\ probe_log[i][1].emitted
            /\ probe_log[i][1].status = "Offline"


(* ------------------------------------------------ the claims on queries *)
\* C24: get_timelines is read-only: no step of a call, whatever its
\* duration and num_buckets (0 included), changes the hosts, the event log,
\* the ping log, the session log or the status cache.
C24_ReadOnly ==
    [][ (\/ api'.tl_pc # api.tl_pc
         \/ api'.tl_idx # api.tl_idx
         \/ query' # query
         \/ timeline' # timeline)
        => UNCHANGED << hosts, host_events, ping_results, server_sessions,
                        status_map >>
      ]_vars

\* C24 witness: a get_timelines call has returned the timeline of a host
\* whose check has left an event, a PingRecord and a cache entry.
C24_Witness ==
    /\ pc = "running"
    /\ api.tl_pc = "done"
    /\ timeline.status = "ok"
    /\ query.host_id = 1
    /\ Len(timeline.buckets) = query.num_buckets
    /\ Len(host_events) > 1
    /\ Len(ping_results) > 0
    /\ status_map[1].status = "Online"


\* C29: a status query or a timeline query is never made to wait while
\* another query is in progress, whatever the cache writers of a running tick
\* do in between.
C29_ReadersNeverWait ==
    api.st_pc = "waiting" => api.tl_pc # "reading"


(* ----------------------------------------- the claims on the store's rows *)
\* C31: the logs are append-only: every step keeps the rows the event log and
\* the ping log held, unchanged and in place, and keeps every host row under
\* its id with its name and address.
C31_AppendOnly ==
    [][ /\ Len(host_events') >= Len(host_events)
        /\ SubSeq(host_events', 1, Len(host_events)) = host_events
        /\ Len(ping_results') >= Len(ping_results)
        /\ SubSeq(ping_results', 1, Len(ping_results)) = ping_results
        /\ Len(hosts') >= Len(hosts)
        /\ \A i \in 1..Len(hosts) :
            /\ hosts'[i].hostname = hosts[i].hostname
            /\ hosts'[i].ip_address = hosts[i].ip_address
            /\ hosts'[i].created_at = hosts[i].created_at
      ]_vars

\* C31 witness: a second process runs on a store of two hosts whose logs hold
\* the events and a PingRecord of the first process and, after them, the
\* events of its own startup.
C31_Witness ==
    /\ pc = "running"
    /\ runs = 2
    /\ Len(hosts) = 2
    /\ boot.host_events >= 2
    /\ boot.ping_results >= 1
    /\ Len(host_events) > boot.host_events + 1
    /\ Len(ping_results) = boot.ping_results


\* The check of task i has just returned Ok in the current tick.
ReturnedOk(i) ==
    /\ pc = "running"
    /\ in_tick
    /\ tasks[i].pc = "done"
    /\ probe_log[i] # <<>>
    /\ LastOf(probe_log[i]).ok

\* The kind of the most recent HostEvent of the host of task i is its cached
\* status.
LatestEventIsCached(i) ==
    LET h == host_ids[i][1] IN
    /\ EventsOf(h) # {}
    /\ h \in DOMAIN status_map
    /\ host_events[Max(EventsOf(h))].event_type =
           (IF status_map[h].status = "Online" THEN "online" ELSE "offline")

\* The host of task i is named once in Monitor.hosts.
ListedOnce(i) ==
    \A j \in 1..Len(host_ids) : host_ids[j][1] = host_ids[i][1] => j = i

\* C32 (as claimed): after every check that returns success the kind of the
\* host's most recent HostEvent is the host's cached status, for every host,
\* the first probe after a restart included.
C32_EventIsCached ==
    \A i \in 1..Len(tasks) : ReturnedOk(i) => LatestEventIsCached(i)

\* C32 (amended): after every check that returns success and has appended a
\* HostEvent, the kind of the most recent HostEvent of its host (named once
\* in the host list) is the host's cached status, the first probe after a
\* restart included.
C32_EventIsCached_Amended ==
    \A i \in 1..Len(tasks) :
        (ReturnedOk(i) /\ LastOf(probe_log[i]).emitted /\ ListedOnce(i))
        => LatestEventIsCached(i)

\* C32 witness: the first probe of a host after a restart is Online; its check
\* has appended the Online event after the Unknown event of the startup and
\* has returned Ok.
C32_Witness ==
    \E i \in 1..Len(tasks) :
        /\ ReturnedOk(i)
        /\ runs = 2
        /\ Len(probe_log[i]) = 1
        /\ probe_log[i][1].emitted
        /\ ListedOnce(i)
        /\ LET mine == EventsOf(host_ids[i][1]) IN
            /\ Cardinality(mine) >= 3
            /\ host_events[Max(mine)].event_type = "online"
            /\ host_events[Max(mine \ {Max(mine)})].event_type = "unknown"
        /\ status_map[host_ids[i][1]].status = "Online"


\* C33: every closed session has stopped_at >= started_at, whether a
\* shutdown or the reconciliation of the next startup closed it.
C33_ClosedAfterStart ==
    \A k \in 1..Len(server_sessions) :
        Closed(server_sessions[k])
        => StoppedAt(server_sessions[k]) >= StartedAt(server_sessions[k])


\* The timestamp of HostEvent e lies in [started_at, stopped_at] of the
\* closed session.
EventInside(e, session) ==
    /\ parse_from_rfc3339(e.timestamp) >= StartedAt(session)
    /\ parse_from_rfc3339(e.timestamp) <= StoppedAt(session)

\* The startup step that closes the unclosed last session; every event
\* later than its started_at was written while it was the running one.
C34_ReconcileStep ==
    (pc = "reconcile" /\ server_sessions' # server_sessions)
    => LET k == Len(server_sessions) IN
       \A n \in 1..Len(host_events) :
           parse_from_rfc3339(host_events[n].timestamp)
               > StartedAt(server_sessions[k])
           => EventInside(host_events[n], server_sessions'[k])

\* The session of the running monitor has been closed by shutdown; the
\* events appended since the process started were written in it.
C34_ShutdownState ==
    (pc = "running" /\ Closed(server_sessions[session_id]))
    => \A n \in (boot.host_events + 1)..Len(host_events) :
           EventInside(host_events[n], server_sessions[session_id])

\* C34: once a session is closed, by shutdown or by crash reconciliation,
\* every HostEvent written while it was the running session has its
\* timestamp inside [started_at, stopped_at].
C34_EventsInsideSession == [][C34_ReconcileStep]_vars /\ []C34_ShutdownState


\* The rows of host_events the ticks of the running monitor appended for
\* host_id: Monitor::new appended one event per monitored host before them.
TickEventsOf(host_id) ==
    { n \in (boot.host_events + Len(host_ids) + 1)..Len(host_events) :
        host_events[n].host_id = host_id }

\* C35: within one monitor session the events appended by ticks for a host
\* never contain two consecutive events of the same kind, whatever the
\* probe results and the outcomes of the event and ping-record writes.
C35_NoRepeatedKind ==
    pc = "running"
    => \A h \in 1..Len(hosts) :
        \A m, n \in TickEventsOf(h) :
            (m < n /\ \A x \in TickEventsOf(h) : ~(m < x /\ x < n))
            => host_events[m].event_type # host_events[n].event_type


\* The events of the queried host with start_time <= timestamp < end_time.
EventsInRange ==
    { e \in 1..Len(host_events) :
        /\ host_events[e].host_id = query.host_id
        /\ query.start_time <= host_events[e].timestamp[2]
        /\ host_events[e].timestamp[2] < query.end_time }

\* C36 (as claimed): for every start < end and num_buckets >= 1 the bucket
\* windows cover the requested range: every event of the host with
\* start <= timestamp < end lies in the window of some bucket, and the last
\* window ends at end.
C36_WindowsCoverRange ==
    Answered =>
        /\ \A e \in EventsInRange : CountedIn(e) # {}
        /\ WindowEnd(query.num_buckets) = query.end_time

\* C36 (amended): the same, for a range whose length in seconds is a
\* multiple of num_buckets.
C36_WindowsCoverRange_Amended ==
    (Answered /\ (query.end_time - query.start_time) % query.num_buckets = 0)
    => /\ \A e \in EventsInRange : CountedIn(e) # {}
       /\ WindowEnd(query.num_buckets) = query.end_time

\* C36 witness: a range of two seconds in two buckets, with an event of the
\* host at the start of each window.
C36_Witness ==
    /\ Answered
    /\ query.num_buckets = 2
    /\ query.end_time - query.start_time = 2
    /\ \E e, f \in EventsInRange :
        /\ CountedIn(e) = {1}
        /\ CountedIn(f) = {2}
        /\ host_events[e].timestamp[2] = query.start_time
        /\ host_events[f].timestamp[2] = query.start_time + 1


\* Monitor::shutdown has returned in the running process: its session is
\* closed.
ShutDown == pc = "running" /\ Closed(server_sessions[session_id])

\* C37: after Monitor::shutdown has returned, the monitor appends no
\* HostEvent and no PingRecord and makes no cache update.
C37_QuietAfterShutdown ==
    [][ (ShutDown /\ pc' = "running")
        => /\ host_events' = host_events
           /\ ping_results' = ping_results
           /\ status_map' = status_map ]_vars


\* C38: sessions never overlap in time: under sequential process runs, for
\* any two sessions a and b with a.id < b.id, a is closed and
\* a.stopped_at <= b.started_at.
C38_SessionsDisjoint ==
    \A a, b \in 1..Len(server_sessions) :
        a < b => /\ Closed(server_sessions[a])
                 /\ StoppedAt(server_sessions[a]) <= StartedAt(server_sessions[b])


\* C38 witness: three runs in a row: the first was killed and reconciled,
\* the second was shut down after the clock had moved, the third is running.
C38_Witness ==
    /\ Len(server_sessions) = 3
    /\ server_sessions[1].shutdown_type = Some("crashed")
    /\ server_sessions[2].shutdown_type = Some(ShutdownType)
    /\ ~Closed(server_sessions[3])
    /\ StartedAt(server_sessions[2]) < StoppedAt(server_sessions[2])
    /\ pc = "running"


\* C39: get_host_timeline is total: for every num_buckets >= 0 and every
\* start and end it returns exactly num_buckets states (none for
\* num_buckets = 0) and never aborts.
C39_TimelineIsTotal ==
    (timeline.status # "none" /\ query.num_buckets >= 0)
    => /\ timeline.status = "ok"
       /\ Len(timeline.buckets) = query.num_buckets


\* C40: determine_bucket_state returns the same state for every ordering of
\* the same events: for the newest-first order of get_host_events and for the
\* oldest-first order of get_host_events_in_range, several events before the
\* window included.
C40_OrderIndependent ==
    (timeline.status = "ok" /\ Len(timeline.buckets) = 2)
    => timeline.buckets[1] = timeline.buckets[2]

====
